---- MODULE Spec2Model ----
(***************************************************************************)
(* Model of src/src/quadratic_equation_solver.py: solve_quadratic, sign    *)
(* and sqrt_by_newton, over a binary floating-point format with the IEEE   *)
(* 754 structure of Python's float (NaN, signed infinities, gradual        *)
(* underflow, round-to-nearest-even) but PBits bits of precision and       *)
(* quantum exponents EMin..EMax instead of 53 bits and -1074..971.         *)
(***************************************************************************)
EXTENDS Integers, Sequences, FiniteSets, TLC

(* ---- the floating-point format (bounds of the model) ------------------ *)
PBits == 5
EMinMag == 64
EMax == 8
EMin == 0 - EMinMag

RECURSIVE Pow2(_)
Pow2(n) == IF n <= 0 THEN 1 ELSE 2 * Pow2(n - 1)

AbsInt(n) == IF n < 0 THEN 0 - n ELSE n
SgnInt(n) == IF n < 0 THEN 0 - 1 ELSE 1

(* A float is NaN, an infinity with sign s, or the finite value m * 2^e.   *)
(* Finite values are canonical: |m| < 2^PBits, EMin <= e <= EMax, and      *)
(* |m| >= 2^(PBits-1) unless e = EMin (subnormals and zero).  Python       *)
(* compares -0.0 == 0.0 and raises on division by zero, so the sign of     *)
(* zero is unobservable here and zero is kept unsigned.                    *)
NaN == [k |-> "nan", m |-> 0, e |-> 0]
Inf(s) == [k |-> "inf", m |-> s, e |-> 0]
Fin(m, e) == [k |-> "fin", m |-> m, e |-> e]
Zero == Fin(0, EMin)
ZDE == [k |-> "zde", m |-> 0, e |-> 0]

IsNaN(x) == x.k = "nan"
IsInf(x) == x.k = "inf"
IsFin(x) == x.k = "fin"
IsZero(x) == x.k = "fin" /\ x.m = 0
SignOf(x) == IF x.m < 0 THEN 0 - 1 ELSE 1

(* Round s * (A / B) * 2^e (A >= 0, B > 0) to the nearest float, ties to   *)
(* the even mantissa; overflow gives an infinity, underflow is gradual.    *)
RECURSIVE RoundRat(_, _, _, _)
RoundRat(s, A, B, e) ==
    IF A = 0 THEN Zero
    ELSE IF A >= B * Pow2(PBits) THEN RoundRat(s, A, 2 * B, e + 1)
    ELSE IF e < EMin THEN
        IF 4 * A < B THEN Zero ELSE RoundRat(s, A, 2 * B, e + 1)
    ELSE IF A < B * Pow2(PBits - 1) /\ e > EMin THEN RoundRat(s, 2 * A, B, e - 1)
    ELSE
        LET qd == A \div B
            rem == A - qd * B
            up == 2 * rem > B \/ (2 * rem = B /\ qd % 2 = 1)
            m == IF up THEN qd + 1 ELSE qd
            m2 == IF m = Pow2(PBits) THEN Pow2(PBits - 1) ELSE m
            e2 == IF m = Pow2(PBits) THEN e + 1 ELSE e
        IN  IF m = 0 THEN Zero
            ELSE IF e2 > EMax THEN Inf(s)
            ELSE Fin(s * m2, e2)

(* int -> float conversion of the literals and of sign()'s result *)
Num(n) == RoundRat(SgnInt(n), AbsInt(n), 1, 0)

Neg(x) == IF IsNaN(x) THEN NaN
          ELSE IF IsInf(x) THEN Inf(0 - x.m)
          ELSE Fin(0 - x.m, x.e)

FAbs(x) == IF IsNaN(x) THEN NaN
           ELSE IF IsInf(x) THEN Inf(1)
           ELSE Fin(AbsInt(x.m), x.e)

(* x + y *)
Add(x, y) ==
    IF IsNaN(x) \/ IsNaN(y) THEN NaN
    ELSE IF IsInf(x) /\ IsInf(y) THEN (IF x.m = y.m THEN x ELSE NaN)
    ELSE IF IsInf(x) THEN x
    ELSE IF IsInf(y) THEN y
    ELSE IF x.m = 0 THEN y
    ELSE IF y.m = 0 THEN x
    ELSE LET hi == IF x.e >= y.e THEN x ELSE y
             lo == IF x.e >= y.e THEN y ELSE x
             d == hi.e - lo.e
         IN  IF d > PBits + 2 THEN hi
             ELSE LET M == hi.m * Pow2(d) + lo.m
                  IN  RoundRat(SgnInt(M), AbsInt(M), 1, lo.e)

Sub(x, y) == Add(x, Neg(y))

(* x * y *)
Mul(x, y) ==
    IF IsNaN(x) \/ IsNaN(y) THEN NaN
    ELSE IF IsInf(x) \/ IsInf(y) THEN
        (IF IsZero(x) \/ IsZero(y) THEN NaN ELSE Inf(SignOf(x) * SignOf(y)))
    ELSE RoundRat(SignOf(x) * SignOf(y), AbsInt(x.m) * AbsInt(y.m), 1, x.e + y.e)

(* x / y; Python raises ZeroDivisionError for every float divided by zero *)
Div(x, y) ==
    IF IsZero(y) THEN ZDE
    ELSE IF IsNaN(x) \/ IsNaN(y) THEN NaN
    ELSE IF IsInf(x) THEN (IF IsInf(y) THEN NaN ELSE Inf(SignOf(x) * SignOf(y)))
    ELSE IF IsInf(y) THEN Zero
    ELSE RoundRat(SignOf(x) * SignOf(y), AbsInt(x.m), AbsInt(y.m), x.e - y.e)

(* x < y and x == y as Python compares floats (false whenever NaN is involved) *)
Lt(x, y) ==
    IF IsNaN(x) \/ IsNaN(y) THEN FALSE
    ELSE IF IsInf(x) THEN x.m < 0 /\ ~(IsInf(y) /\ y.m < 0)
    ELSE IF IsInf(y) THEN y.m > 0
    ELSE IF x.m < 0 /\ y.m >= 0 THEN TRUE
    ELSE IF x.m >= 0 /\ y.m < 0 THEN FALSE
    ELSE IF x.m >= 0 THEN x.e < y.e \/ (x.e = y.e /\ x.m < y.m)
    ELSE y.e < x.e \/ (x.e = y.e /\ x.m < y.m)

Eq(x, y) == ~IsNaN(x) /\ ~IsNaN(y) /\ x = y

(* ---- src/src/quadratic_equation_solver.py ------------------------------ *)

(* ERROR = 0.00000001, the float nearest 10^-8 = 2^-8 / 5^8 *)
ERROR == RoundRat(1, 1, 390625, 0 - 8)

sign_ZeroForZero(x) == IF Lt(Zero, x) THEN 1 ELSE IF Eq(x, Zero) THEN 0 ELSE 0 - 1

(* sign(b): 1 if b > 0 else -1 *)
sign(x) == IF Lt(Zero, x) THEN 1 ELSE 0 - 1

(* b * b - 4 * a * c, evaluated left to right as Python does: (4 * a) * c *)
Discriminant(fa, fb, fc) == Sub(Mul(fb, fb), Mul(Mul(Num(4), fa), fc))

(* a seed of value / 2, which lies below the square root for value < 4 *)
Seed_HalfOfValue(v) == Div(v, Num(2))

(* previous = (1 + value) / 2 *)
Seed(v) == Div(Add(Num(1), v), Num(2))

(* result = (previous + value / previous) / 2; ZDE when previous is 0 *)
NewtonResult(v, p) ==
    LET d == Div(v, p)
    IN  IF d = ZDE THEN ZDE ELSE Div(Add(p, d), Num(2))

Converged_WithinOne(p, r) == Lt(FAbs(Sub(p, r)), Num(1))

(* abs(previous - result) < ERROR *)
Converged(p, r) == Lt(FAbs(Sub(p, r)), ERROR)

(* q = (-0.5) * (b + sign(b) * sqrt) *)
QOf(fb, s) == Mul(RoundRat(0 - 1, 1, 2, 0), Add(fb, Mul(Num(sign(fb)), s)))

(* outcomes of a call: a returned pair of roots, a returned square root,   *)
(* or the exception that left the call                                     *)
Unset == [k |-> "unset", m |-> 0, e |-> 0]
Real(x) == [cx |-> FALSE, re |-> x, im |-> Zero]
Complex(re, im) == [cx |-> TRUE, re |-> re, im |-> im]
NoOutcome == [kind |-> "none", x1 |-> Real(Unset), x2 |-> Real(Unset)]
Returned(r1, r2) == [kind |-> "pair", x1 |-> r1, x2 |-> r2]
ReturnedValue(x) == [kind |-> "value", x1 |-> Real(x), x2 |-> Real(Unset)]
Raised(exc) == [kind |-> exc, x1 |-> Real(Unset), x2 |-> Real(Unset)]

ComplexBranch_RealSecond(fa, fb, s) ==
    LET twoA == Mul(Num(2), fa)
        real == Div(Mul(Num(0 - 1), fb), twoA)
        imaginary == Div(s, twoA)
    IN  IF real = ZDE \/ imaginary = ZDE THEN Raised("ZeroDivisionError")
        ELSE Returned(Complex(real, imaginary), Real(real))

(* the complex branch, lines 21-24 *)
ComplexBranch(fa, fb, s) ==
    LET twoA == Mul(Num(2), fa)
        real == Div(Mul(Num(0 - 1), fb), twoA)
        imaginary == Div(s, twoA)
    IN  IF real = ZDE \/ imaginary = ZDE THEN Raised("ZeroDivisionError")
        ELSE Returned(Complex(real, imaginary), Complex(real, Neg(imaginary)))

RealBranch_BothZero(fa, fb, fc, s) ==
    LET fq == QOf(fb, s)
    IN  IF Eq(fq, Zero) THEN
            IF ~Eq(fc, Zero) THEN Raised("ValueError")
            ELSE Returned(Real(Zero), Real(Zero))
        ELSE LET x1 == Div(fq, fa)
                 x2 == Div(fc, fq)
             IN  IF x1 = ZDE \/ x2 = ZDE THEN Raised("ZeroDivisionError")
                 ELSE Returned(Real(x1), Real(x2))

RealBranch_NoGuard(fa, fb, fc, s) ==
    LET fq == QOf(fb, s)
        x1 == Div(fq, fa)
        x2 == Div(fc, fq)
    IN  IF x1 = ZDE \/ x2 = ZDE THEN Raised("ZeroDivisionError")
        ELSE Returned(Real(x1), Real(x2))

(* the real branch after the square root, lines 28-40 *)
RealBranch(fa, fb, fc, s) ==
    LET fq == QOf(fb, s)
    IN  IF Eq(fq, Zero) THEN
            IF ~Eq(fc, Zero) THEN Raised("ValueError")
            ELSE LET x2 == Div(Neg(fb), fa)
                 IN  IF x2 = ZDE THEN Raised("ZeroDivisionError")
                     ELSE Returned(Real(Zero), Real(x2))
        ELSE LET x1 == Div(fq, fa)
                 x2 == Div(fc, fq)
             IN  IF x1 = ZDE \/ x2 = ZDE THEN Raised("ZeroDivisionError")
                 ELSE Returned(Real(x1), Real(x2))

(* ---- the calls as state machines --------------------------------------- *)
VARIABLES a, b, c, pc, discriminant, value, previous, result, sqrt, q, calls, out
(* the frames of the calls that are not running and the call that is; the
   text last read from the terminal and the lines printed since *)
VARIABLES saved, running, text, printed
(* date_helper: the arguments of the call under way and the time zone of the
   process; the text of the EditText, the date picker and the time picker
   that were built for it, and how often the time listener has run *)
VARIABLES date, new_date, date_format, timezone, edit_text, dialog, time_dialog, time_sets
dateVars == <<date, new_date, date_format, timezone, edit_text, dialog, time_dialog, time_sets>>
vars == <<a, b, c, pc, discriminant, value, previous, result, sqrt, q, calls, out,
          saved, running, text, printed, dateVars>>
(* what no statement of solve_quadratic or sqrt_by_newton touches *)
env == <<saved, running, text, printed, dateVars>>
(* no call into date_helper is under way *)
NoDates ==
    /\ date = <<>> /\ new_date = <<>> /\ date_format = 0 /\ timezone = 0
    /\ edit_text = <<>> /\ dialog = <<>> /\ time_dialog = <<>> /\ time_sets = 0

(* 2^k as a float *)
TwoTo(k) == RoundRat(1, 1, 1, k)
MinSub == Fin(1, EMin)
MaxFin == Fin(Pow2(PBits) - 1, EMax)

(* coefficients handed to solve_quadratic *)
Coefficients ==
    {NaN, Inf(1), Inf(0 - 1), Zero, MinSub, MaxFin,
     TwoTo(0 - 31), Neg(TwoTo(0 - 30)), TwoTo(0 - 20),
     TwoTo(0 - 1), RoundRat(1, 7, 2, 0), Num(6),
     Num(1), Num(0 - 1), Num(2), Num(0 - 3), Num(0 - 4), Num(5)}

(* arguments handed to sqrt_by_newton when it is called on its own *)
Mantissas == 0 .. (Pow2(PBits) - 1)
SqrtArguments ==
    {Fin(m, EMin) : m \in Mantissas}
    \cup {Fin(m, e) : m \in (Pow2(PBits - 1) .. (Pow2(PBits) - 1)), e \in (EMin + 1) .. EMax}
    \cup {Inf(1)}

Init ==
    /\ a \in Coefficients /\ b \in Coefficients /\ c \in Coefficients
    /\ pc = "solve_quadratic"
    /\ discriminant = Unset /\ value = Unset /\ previous = Unset
    /\ result = Unset /\ sqrt = Unset /\ q = Unset
    /\ calls = 0 /\ out = NoOutcome
    /\ saved = <<>> /\ running = 0 /\ text = <<>> /\ printed = <<>>
    /\ NoDates

InitSqrt ==
    /\ a = Unset /\ b = Unset /\ c = Unset
    /\ pc = "sqrt_by_newton"
    /\ value \in SqrtArguments
    /\ discriminant = Unset /\ previous = Unset
    /\ result = Unset /\ sqrt = Unset /\ q = Unset
    /\ calls = 1 /\ out = NoOutcome
    /\ saved = <<>> /\ running = 0 /\ text = <<>> /\ printed = <<>>
    /\ NoDates

(* line 15 *)
ComputeDiscriminant ==
    /\ pc = "solve_quadratic"
    /\ discriminant' = Discriminant(a, b, c)
    /\ pc' = "isnan"
    /\ UNCHANGED <<a, b, c, value, previous, result, sqrt, q, calls, out>>
    /\ UNCHANGED env

(* lines 17-18 *)
RaiseNotEnoughPrecision ==
    /\ pc = "isnan" /\ IsNaN(discriminant)
    /\ out' = Raised("NotEnoughPrecisionException")
    /\ pc' = "done"
    /\ UNCHANGED <<a, b, c, discriminant, value, previous, result, sqrt, q, calls>>
    /\ UNCHANGED env

CallSqrt_NoNaNCheck ==
    /\ pc = "isnan"
    /\ value' = IF Lt(discriminant, Zero) THEN Mul(Num(0 - 1), discriminant)
                ELSE discriminant
    /\ calls' = calls + 1
    /\ pc' = "sqrt_by_newton"
    /\ UNCHANGED <<a, b, c, discriminant, previous, result, sqrt, q, out>>
    /\ UNCHANGED env

(* the complex branch handing the discriminant itself to sqrt_by_newton *)
CallSqrt_PassesDiscriminant ==
    /\ pc = "isnan" /\ ~IsNaN(discriminant)
    /\ value' = discriminant
    /\ calls' = calls + 1
    /\ pc' = "sqrt_by_newton"
    /\ UNCHANGED <<a, b, c, discriminant, previous, result, sqrt, q, out>>
    /\ UNCHANGED env

(* lines 20-21 and 25-26: the call of sqrt_by_newton *)
CallSqrt ==
    /\ pc = "isnan" /\ ~IsNaN(discriminant)
    /\ value' = IF Lt(discriminant, Zero) THEN Mul(Num(0 - 1), discriminant)
                ELSE discriminant
    /\ calls' = calls + 1
    /\ pc' = "sqrt_by_newton"
    /\ UNCHANGED <<a, b, c, discriminant, previous, result, sqrt, q, out>>
    /\ UNCHANGED env

(* lines 60-61 *)
SqrtOfZero ==
    /\ pc = "sqrt_by_newton" /\ Eq(value, Zero)
    /\ sqrt' = Zero
    /\ pc' = "returned"
    /\ UNCHANGED <<a, b, c, discriminant, value, previous, result, q, calls, out>>
    /\ UNCHANGED env

(* line 63 *)
SqrtSeed ==
    /\ pc = "sqrt_by_newton" /\ ~Eq(value, Zero)
    /\ previous' = Seed(value)
    /\ pc' = "loop"
    /\ UNCHANGED <<a, b, c, discriminant, value, result, sqrt, q, calls, out>>
    /\ UNCHANGED env

(* lines 66-70: one pass of the loop that does not break *)
NewtonIterate ==
    /\ pc = "loop"
    /\ NewtonResult(value, previous) # ZDE
    /\ ~Converged(previous, NewtonResult(value, previous))
    /\ result' = NewtonResult(value, previous)
    /\ previous' = result'
    /\ UNCHANGED <<a, b, c, pc, discriminant, value, sqrt, q, calls, out>>
    /\ UNCHANGED env

(* lines 66-72: the pass that breaks and returns result *)
NewtonReturn ==
    /\ pc = "loop"
    /\ NewtonResult(value, previous) # ZDE
    /\ Converged(previous, NewtonResult(value, previous))
    /\ result' = NewtonResult(value, previous)
    /\ sqrt' = result'
    /\ pc' = "returned"
    /\ UNCHANGED <<a, b, c, discriminant, value, previous, q, calls, out>>
    /\ UNCHANGED env

(* lines 22-24 *)
ComplexRoots ==
    /\ pc = "returned" /\ Lt(discriminant, Zero)
    /\ out' = ComplexBranch(a, b, sqrt)
    /\ pc' = "done"
    /\ UNCHANGED <<a, b, c, discriminant, value, previous, result, sqrt, q, calls>>
    /\ UNCHANGED env

(* lines 28-40 *)
RealRoots ==
    /\ pc = "returned" /\ ~Lt(discriminant, Zero)
    /\ q' = QOf(b, sqrt)
    /\ out' = RealBranch(a, b, c, sqrt)
    /\ pc' = "done"
    /\ UNCHANGED <<a, b, c, discriminant, value, previous, result, sqrt, calls>>
    /\ UNCHANGED env

(* sqrt_by_newton called on its own hands its result to the caller *)
SqrtReturn ==
    /\ pc = "returned"
    /\ out' = ReturnedValue(sqrt)
    /\ pc' = "done"
    /\ UNCHANGED <<a, b, c, discriminant, value, previous, result, sqrt, q, calls>>
    /\ UNCHANGED env

Next ==
    \/ ComputeDiscriminant
    \/ RaiseNotEnoughPrecision
    \/ CallSqrt
    \/ SqrtOfZero
    \/ SqrtSeed
    \/ NewtonIterate
    \/ NewtonReturn
    \/ ComplexRoots
    \/ RealRoots

NextSqrt ==
    \/ SqrtOfZero
    \/ SqrtSeed
    \/ NewtonIterate
    \/ NewtonReturn
    \/ SqrtReturn

(* calls of solve_quadratic *)
Spec == Init /\ [][Next]_vars

(* calls of sqrt_by_newton *)
SpecSqrt == InitSqrt /\ [][NextSqrt]_vars

(* ---- claims ------------------------------------------------------------- *)

Done == pc = "done"
ReturnedPair == Done /\ out.kind = "pair"

(* C1: whenever the discriminant b*b - 4*a*c is NaN (in particular when a   *)
(* coefficient is NaN) solve_quadratic raises NotEnoughPrecisionException,  *)
(* returns no root pair and never calls sqrt_by_newton.                     *)
C1_NaNDiscriminantRaises ==
    /\ (discriminant # Unset /\ (IsNaN(a) \/ IsNaN(b) \/ IsNaN(c))) => IsNaN(discriminant)
    /\ (discriminant # Unset /\ IsNaN(discriminant)) =>
          /\ calls = 0
          /\ pc \in {"isnan", "done"}
          /\ pc = "isnan" => (ENABLED RaiseNotEnoughPrecision /\ ~ENABLED CallSqrt)
          /\ pc = "done" => out = Raised("NotEnoughPrecisionException")

C1_Witness ==
    /\ Done /\ IsNaN(discriminant) /\ ~IsNaN(a) /\ ~IsNaN(b) /\ ~IsNaN(c)
    /\ out = Raised("NotEnoughPrecisionException") /\ calls = 0

(* the arguments the specification admits: three finite numbers, a # 0 *)
FiniteCoefficients == IsFin(a) /\ IsFin(b) /\ IsFin(c)
TrueQuadratic == FiniteCoefficients /\ ~Eq(a, Zero)
RealBranchDone == Done /\ q # Unset
ComplexBranchDone == Done /\ discriminant # Unset /\ Lt(discriminant, Zero)

(* C2: for every (a, b, c) with a # 0 and a non-NaN discriminant D the call *)
(* of solve_quadratic ends by returning exactly two roots of the same kind, *)
(* chosen by the sign of D alone: both complex when D < 0, both real when   *)
(* D >= 0; a pair never mixes a real and a complex root.                    *)
C2_TwoRootsKindBySignOfD ==
    (Done /\ TrueQuadratic /\ ~IsNaN(discriminant)) =>
        /\ out.kind = "pair"
        /\ out.x1.cx = out.x2.cx
        /\ out.x1.cx <=> Lt(discriminant, Zero)

(* C2, the part that holds: a pair that is returned never mixes the kinds,  *)
(* and its kind follows the sign of D.                                      *)
C2_ReturnedKindBySignOfD ==
    ReturnedPair =>
        /\ ~IsNaN(discriminant)
        /\ out.x1.cx = out.x2.cx
        /\ out.x1.cx <=> Lt(discriminant, Zero)

C2_Witness ==
    /\ Done /\ TrueQuadratic /\ Eq(discriminant, Zero)
    /\ out = Raised("ValueError")

(* C3: in the real branch (a # 0, D >= 0) the two returned roots are equal  *)
(* if and only if D == 0.                                                   *)
C3_EqualRootsIffDZero ==
    (ReturnedPair /\ TrueQuadratic /\ ~Lt(discriminant, Zero)) =>
        (Eq(out.x1.re, out.x2.re) <=> Eq(discriminant, Zero))

C3_Witness ==
    /\ ReturnedPair /\ TrueQuadratic /\ Eq(discriminant, Zero)
    /\ a = TwoTo(0 - 1) /\ b = RoundRat(1, 7, 2, 0) /\ c = Num(6)
    /\ ~Eq(out.x1.re, out.x2.re)

(* C4: when D < 0 (a # 0) solve_quadratic returns the conjugate pair        *)
(* (re + i*im, re - i*im) with re = -b/(2a) and im = sqrt_by_newton(-D)/(2a): *)
(* same real part, imaginary parts exact negations, the first carrying +im. *)
C4_ConjugatePair ==
    ComplexBranchDone =>
        LET re == Div(Mul(Num(0 - 1), b), Mul(Num(2), a))
            im == Div(sqrt, Mul(Num(2), a))
        IN  /\ value = Neg(discriminant)
            /\ out = Returned(Complex(re, im), Complex(re, Neg(im)))
            /\ out.x1.re = out.x2.re
            /\ out.x2.im = Neg(out.x1.im)

C4_Witness ==
    /\ ComplexBranchDone /\ a = Num(1) /\ b = Num(2) /\ c = Num(5)
    /\ out = Returned(Complex(Num(0 - 1), Num(2)), Complex(Num(0 - 1), Num(0 - 2)))

C7_InvalidStateRaises ==
    (RealBranchDone /\ Eq(q, Zero) /\ ~Eq(c, Zero)) =>
        /\ out = Raised("ValueError")
        /\ out # Raised("NotEnoughPrecisionException")
        /\ out # Raised("ZeroDivisionError")

C7_Witness ==
    /\ RealBranchDone /\ a = Zero /\ b = Zero /\ c = Num(1)
    /\ Eq(q, Zero) /\ out = Raised("ValueError")

(* ---- exact comparison of r*r - x with a tolerance ----------------------- *)
(* A non-negative dyadic number m * 2^e, m an integer: squares of floats    *)
(* and the tolerances are compared exactly, not in rounded arithmetic.      *)
Dy(m, e) == [m |-> m, e |-> e]
DyOf(x) == Dy(AbsInt(x.m), x.e)
DySquare(x) == Dy(x.m * x.m, 2 * x.e)
DyTwice(x) == Dy(2 * x.m, x.e)
(* exponents further apart than this are not brought to a common scale *)
NearGap == 16

(* x <= y, for mantissas below 2^30 *)
DyLeq(x, y) ==
    IF x.m = 0 THEN TRUE
    ELSE IF y.m = 0 THEN FALSE
    ELSE IF x.e >= y.e
         THEN IF x.e - y.e >= 30 THEN FALSE
              ELSE x.m <= y.m \div Pow2(x.e - y.e)
         ELSE IF y.e - x.e >= 30 THEN TRUE
              ELSE (x.m + Pow2(y.e - x.e) - 1) \div Pow2(y.e - x.e) <= y.m

DyNear(x, y) == AbsInt(x.e - y.e) <= NearGap
DyMax(x, y) == IF x.e >= y.e THEN x ELSE y

(* |x - y| for x and y with near exponents *)
DyDiffNear(x, y) ==
    LET lo == IF x.e <= y.e THEN x.e ELSE y.e
    IN  Dy(AbsInt(x.m * Pow2(x.e - lo) - y.m * Pow2(y.e - lo)), lo)

(* certainly |x - y| <= t, x and y with mantissas below 2^13: exact when    *)
(* the exponents of x and y are near; otherwise the one with the larger     *)
(* exponent is the larger one, and it suffices that it is at most t         *)
DyWithin(x, y, t) ==
    IF x.m = 0 THEN DyLeq(y, t)
    ELSE IF y.m = 0 THEN DyLeq(x, t)
    ELSE IF DyNear(x, y) THEN DyLeq(DyDiffNear(x, y), t)
    ELSE DyLeq(DyMax(x, y), t)

(* certainly |x - y| > t: exact when the exponents of x and y are near;     *)
(* otherwise the smaller is less than half the larger, and it suffices      *)
(* that the larger exceeds 2t                                               *)
DyExceeds(x, y, t) ==
    IF x.m = 0 THEN ~DyLeq(y, t)
    ELSE IF y.m = 0 THEN ~DyLeq(x, t)
    ELSE IF DyNear(x, y) THEN ~DyLeq(DyDiffNear(x, y), t)
    ELSE ~DyLeq(DyMax(x, y), DyTwice(t))

(* the spacing of the floats at x (one unit in the last place of x) *)
Ulp(x) == Dy(1, x.e)
FourUlps(x) == Dy(4 * Ulp(x).m, Ulp(x).e)

SqrtDone == Done /\ out.kind = "value"

(* C8 as stated: sqrt_by_newton(0) returns exactly 0 without entering the   *)
(* iteration, and for every x > 0 the returned r has |r*r - x| <= 1e-8.     *)
C8_SquareWithinERROR ==
    SqrtDone =>
        IF Eq(value, Zero) THEN sqrt = Zero /\ previous = Unset /\ result = Unset
        ELSE ~DyExceeds(DySquare(sqrt), DyOf(value), DyOf(ERROR))

(* C8: sqrt_by_newton(0) returns exactly 0 without entering the iteration,  *)
(* and for every x > 0 for which it returns r, |r*r - x| is at most the     *)
(* larger of 1e-8 and 4 units in the last place of x.                       *)
C8_SquareWithinERROROrUlps ==
    SqrtDone =>
        IF Eq(value, Zero) THEN sqrt = Zero /\ previous = Unset /\ result = Unset
        ELSE /\ IsFin(sqrt) /\ Lt(Zero, sqrt)
             /\ \/ DyWithin(DySquare(sqrt), DyOf(value), DyOf(ERROR))
                \/ DyWithin(DySquare(sqrt), DyOf(value), FourUlps(value))

C8_Witness ==
    /\ SqrtDone /\ value = MaxFin
    /\ DyExceeds(DySquare(sqrt), DyOf(value), DyOf(ERROR))
    /\ DyWithin(DySquare(sqrt), DyOf(value), FourUlps(value))

(* ---- the closeness test of the test suites ------------------------------ *)
(* math.isclose(x, y, rel_tol=ERROR, abs_tol=ERROR) *)
is_close(x, y) ==
    IF IsNaN(x) \/ IsNaN(y) THEN FALSE
    ELSE IF Eq(x, y) THEN TRUE
    ELSE IF IsInf(x) \/ IsInf(y) THEN FALSE
    ELSE LET diff == FAbs(Sub(y, x))
         IN  \/ ~Lt(FAbs(Mul(ERROR, y)), diff)
             \/ ~Lt(FAbs(Mul(ERROR, x)), diff)
             \/ ~Lt(ERROR, diff)

(* a * r**2 + b * r + c for a returned root r, real and imaginary part *)
ResidualRe(fa, fb, fc, r) ==
    IF r.cx
    THEN Add(Add(Mul(fa, Sub(Mul(r.re, r.re), Mul(r.im, r.im))), Mul(fb, r.re)), fc)
    ELSE Add(Add(Mul(fa, Mul(r.re, r.re)), Mul(fb, r.re)), fc)
ResidualIm(fa, fb, fc, r) ==
    IF r.cx
    THEN Add(Mul(fa, Add(Mul(r.re, r.im), Mul(r.im, r.re))), Mul(fb, r.im))
    ELSE Zero

(* sum(roots) and roots[0] * roots[1], real and imaginary part *)
SumRe(r1, r2) == Add(r1.re, r2.re)
SumIm(r1, r2) == Add(r1.im, r2.im)
ProductRe(r1, r2) ==
    IF r1.cx THEN Sub(Mul(r1.re, r2.re), Mul(r1.im, r2.im)) ELSE Mul(r1.re, r2.re)
ProductIm(r1, r2) ==
    IF r1.cx THEN Add(Mul(r1.re, r2.im), Mul(r1.im, r2.re)) ELSE Zero

(* C9: for every (a, b, c) with a # 0 and finite D, each root r returned by *)
(* solve_quadratic satisfies a*r*r + b*r + c = 0 within tolerance 1e-8      *)
(* (relative or absolute).                                                  *)
C9_RootsSatisfyEquation ==
    (ReturnedPair /\ TrueQuadratic /\ IsFin(discriminant)) =>
        \A r \in {out.x1, out.x2} :
            /\ is_close(ResidualRe(a, b, c, r), Zero)
            /\ is_close(ResidualIm(a, b, c, r), Zero)

C9_Witness ==
    /\ ReturnedPair /\ a = TwoTo(0 - 31) /\ b = Zero /\ c = Neg(TwoTo(0 - 30))
    /\ out = Returned(Real(Num(8)), Real(Neg(TwoTo(0 - 2))))
    /\ ~is_close(ResidualRe(a, b, c, out.x1), Zero)

(* C10: for every (a, b, c) with a # 0 for which solve_quadratic returns    *)
(* (root1, root2), root1 + root2 equals -b/a and root1 * root2 equals c/a   *)
(* within tolerance 1e-8, in the real and in the complex branch.            *)
C10_Vieta ==
    (ReturnedPair /\ TrueQuadratic) =>
        /\ is_close(SumRe(out.x1, out.x2), Div(Neg(b), a))
        /\ is_close(SumIm(out.x1, out.x2), Zero)
        /\ is_close(ProductRe(out.x1, out.x2), Div(c, a))
        /\ is_close(ProductIm(out.x1, out.x2), Zero)

C10_Witness ==
    /\ ReturnedPair /\ a = TwoTo(0 - 31) /\ b = Zero /\ c = Neg(TwoTo(0 - 30))
    /\ SumRe(out.x1, out.x2) = RoundRat(1, 31, 4, 0)
    /\ Div(Neg(b), a) = Zero
    /\ ~is_close(SumRe(out.x1, out.x2), Div(Neg(b), a))
    /\ is_close(ProductRe(out.x1, out.x2), Div(c, a))

(* ---- solve_quadratic and sqrt_by_newton as functions of their arguments - *)
(* the call never returns: the loop of sqrt_by_newton has no exit *)
Diverges == [kind |-> "diverges", x1 |-> Real(Unset), x2 |-> Real(Unset)]
Hang == [k |-> "hang", m |-> 0, e |-> 0]

(* the loop of lines 66-70 from the iterate p: it returns the first result  *)
(* within ERROR of its predecessor, and runs forever once an iterate        *)
(* repeats without being within ERROR of itself (NaN)                       *)
RECURSIVE NewtonFrom(_, _)
NewtonFrom(v, p) ==
    LET r == NewtonResult(v, p)
    IN  IF r = ZDE THEN ZDE
        ELSE IF Converged(p, r) THEN r
        ELSE IF r = p THEN Hang
        ELSE NewtonFrom(v, r)

(* sqrt_by_newton(value), lines 52-72 *)
SqrtByNewton(v) == IF Eq(v, Zero) THEN Zero ELSE NewtonFrom(v, Seed(v))

(* solve_quadratic(a, b, c), lines 14-40 *)
SolveQuadratic(fa, fb, fc) ==
    LET d == Discriminant(fa, fb, fc)
        s == SqrtByNewton(IF Lt(d, Zero) THEN Mul(Num(0 - 1), d) ELSE d)
    IN  IF IsNaN(d) THEN Raised("NotEnoughPrecisionException")
        ELSE IF s = Hang THEN Diverges
        ELSE IF s = ZDE THEN Raised("ZeroDivisionError")
        ELSE IF Lt(d, Zero) THEN ComplexBranch(fa, fb, s)
        ELSE RealBranch(fa, fb, fc, s)

(* scale factors k of the scaling relation *)
Scales == {Num(2), Num(0 - 1), TwoTo(0 - 1), Num(0 - 4), TwoTo(10)}

SameRoot(r1, r2) ==
    /\ r1.cx = r2.cx
    /\ is_close(r1.re, r2.re)
    /\ is_close(r1.im, r2.im)

(* C11: for every (a, b, c) with a # 0 and every nonzero k,                 *)
(* solve_quadratic(k*a, k*b, k*c) returns the same roots as                 *)
(* solve_quadratic(a, b, c), in the same positions of the pair, except that *)
(* the two complex roots may be exchanged when k < 0.                       *)
C11_ScaleInvariance ==
    (ReturnedPair /\ TrueQuadratic) =>
        \A k \in Scales :
            LET ka == Mul(k, a)
                kb == Mul(k, b)
                kc == Mul(k, c)
                scaled == SolveQuadratic(ka, kb, kc)
            IN  (IsFin(ka) /\ IsFin(kb) /\ IsFin(kc) /\ ~Eq(ka, Zero)) =>
                    /\ scaled.kind = "pair"
                    /\ \/ SameRoot(scaled.x1, out.x1) /\ SameRoot(scaled.x2, out.x2)
                       \/ /\ out.x1.cx /\ Lt(k, Zero)
                          /\ SameRoot(scaled.x1, out.x2) /\ SameRoot(scaled.x2, out.x1)

C11_Witness ==
    /\ ReturnedPair /\ a = TwoTo(0 - 31) /\ b = Zero /\ c = Neg(TwoTo(0 - 30))
    /\ out = Returned(Real(Num(8)), Real(Neg(TwoTo(0 - 2))))
    /\ Mul(TwoTo(10), a) = TwoTo(0 - 21) /\ Mul(TwoTo(10), c) = Neg(TwoTo(0 - 20))
    /\ SolveQuadratic(TwoTo(0 - 21), Zero, Neg(TwoTo(0 - 20))).kind = "pair"
    /\ ~SameRoot(SolveQuadratic(TwoTo(0 - 21), Zero, Neg(TwoTo(0 - 20))).x1, out.x1)
    /\ Lt(SolveQuadratic(TwoTo(0 - 21), Zero, Neg(TwoTo(0 - 20))).x1.re, Num(2))

(* C15: for a == 0 and b != 0, solve_quadratic(0, b, c) returns a pair of    *)
(* two equal roots, each equal to -c/b.                                      *)
C15_LinearRoot ==
    (Done /\ FiniteCoefficients /\ Eq(a, Zero) /\ ~Eq(b, Zero)) =>
        /\ out.kind = "pair"
        /\ ~out.x1.cx /\ ~out.x2.cx
        /\ Eq(out.x1.re, out.x2.re)
        /\ is_close(out.x1.re, Div(Neg(c), b))

(* solve_quadratic(0, 2, 1): q = -2 and x1 = q / a divides by zero *)
C15_Witness ==
    /\ Done /\ a = Zero /\ b = Num(2) /\ c = Num(1)
    /\ discriminant = Num(4) /\ sqrt = Num(2) /\ q = Num(0 - 2)
    /\ out = Raised("ZeroDivisionError")

(* ---- concurrent calls of solve_quadratic -------------------------------- *)
(* Every name the two functions assign is a local of the call (lines 14-72);  *)
(* the only module-level name they read is ERROR, which nothing assigns. A    *)
(* thread switch therefore suspends one call's frame and resumes another's.   *)
NCalls == 2
CallIds == 1 .. NCalls

(* the running call's frame *)
Frame ==
    [a |-> a, b |-> b, c |-> c, pc |-> pc, discriminant |-> discriminant,
     value |-> value, previous |-> previous, result |-> result, sqrt |-> sqrt,
     q |-> q, calls |-> calls, out |-> out]

(* the frame of a call that has just been entered with arguments t *)
InitialFrame(t) ==
    [a |-> t[1], b |-> t[2], c |-> t[3], pc |-> "solve_quadratic",
     discriminant |-> Unset, value |-> Unset, previous |-> Unset,
     result |-> Unset, sqrt |-> Unset, q |-> Unset, calls |-> 0,
     out |-> NoOutcome]

FrameOf(i) == IF i = running THEN Frame ELSE saved[i]

(* arguments of the concurrent calls: real roots after several passes of    *)
(* the square-root loop, complex roots, and the two exceptions raised by    *)
(* solve_quadratic itself                                                   *)
ConcurrentArguments ==
    {<<Num(1), Zero, Num(0 - 2)>>, <<Num(1), Num(2), Num(5)>>,
     <<NaN, Num(1), Num(1)>>, <<Zero, Zero, Num(1)>>}

InitConcurrent ==
    /\ running = 1
    /\ \E t \in ConcurrentArguments :
          /\ a = t[1] /\ b = t[2] /\ c = t[3]
    /\ pc = "solve_quadratic"
    /\ discriminant = Unset /\ value = Unset /\ previous = Unset
    /\ result = Unset /\ sqrt = Unset /\ q = Unset
    /\ calls = 0 /\ out = NoOutcome
    /\ saved \in [CallIds \ {1} -> {InitialFrame(t) : t \in ConcurrentArguments}]
    /\ text = <<>> /\ printed = <<>>
    /\ NoDates

(* a switch that leaves discriminant where it is, as a module-level name would be *)
Switch_SharedDiscriminant(j) ==
    /\ running \in CallIds /\ j \in CallIds /\ j # running
    /\ saved' = [i \in CallIds \ {j} |-> IF i = running THEN Frame ELSE saved[i]]
    /\ running' = j
    /\ a' = saved[j].a /\ b' = saved[j].b /\ c' = saved[j].c
    /\ pc' = saved[j].pc
    /\ value' = saved[j].value /\ previous' = saved[j].previous
    /\ result' = saved[j].result /\ sqrt' = saved[j].sqrt /\ q' = saved[j].q
    /\ calls' = saved[j].calls /\ out' = saved[j].out
    /\ UNCHANGED <<discriminant, text, printed, dateVars>>

(* the interpreter suspends the running call between two statements and     *)
(* resumes call j: each call keeps every one of its locals                  *)
Switch(j) ==
    /\ running \in CallIds /\ j \in CallIds /\ j # running
    /\ saved' = [i \in CallIds \ {j} |-> IF i = running THEN Frame ELSE saved[i]]
    /\ running' = j
    /\ a' = saved[j].a /\ b' = saved[j].b /\ c' = saved[j].c
    /\ pc' = saved[j].pc /\ discriminant' = saved[j].discriminant
    /\ value' = saved[j].value /\ previous' = saved[j].previous
    /\ result' = saved[j].result /\ sqrt' = saved[j].sqrt /\ q' = saved[j].q
    /\ calls' = saved[j].calls /\ out' = saved[j].out
    /\ UNCHANGED <<text, printed, dateVars>>

SwitchThread == \E j \in CallIds : Switch(j)

NextConcurrent ==
    \/ SwitchThread
    \/ ComputeDiscriminant
    \/ RaiseNotEnoughPrecision
    \/ CallSqrt
    \/ SqrtOfZero
    \/ SqrtSeed
    \/ NewtonIterate
    \/ NewtonReturn
    \/ ComplexRoots
    \/ RealRoots

(* calls of solve_quadratic interleaved statement by statement *)
SpecConcurrent == InitConcurrent /\ [][NextConcurrent]_vars

(* a call run alone ends with the outcome the function of its arguments gives *)
C12_OutcomeIsFunctionOfArguments == Done => out = SolveQuadratic(a, b, c)

(* C12: in any interleaving of concurrent calls each call ends with the      *)
(* outcome (root pair or error) it has when it runs alone, and that outcome  *)
(* is a function of the call's own arguments only.                           *)
C12_InterleavingKeepsOutcome ==
    \A i \in CallIds :
        FrameOf(i).pc = "done" =>
            FrameOf(i).out = SolveQuadratic(FrameOf(i).a, FrameOf(i).b, FrameOf(i).c)

(* call 2 has finished with complex roots while call 1 is suspended in the   *)
(* middle of its square-root loop                                            *)
C12_Witness ==
    /\ running = 2 /\ pc = "done"
    /\ a = Num(1) /\ b = Num(2) /\ c = Num(5)
    /\ out.kind = "pair" /\ out.x1.cx
    /\ saved[1].pc = "loop" /\ saved[1].c = Num(0 - 2)
    /\ saved[1].previous # Unset

(* ---- text: what input() returns and print() shows ----------------------- *)
(* A text is a sequence of one-character strings.                            *)
DigitChars == <<"0", "1", "2", "3", "4", "5", "6", "7", "8", "9">>
IsDigit(ch) == \E i \in 1 .. 10 : DigitChars[i] = ch
DigitValue(ch) == (CHOOSE i \in 1 .. 10 : DigitChars[i] = ch) - 1
DigitChar(d) == DigitChars[d + 1]

Contains(t, ch) == \E i \in 1 .. Len(t) : t[i] = ch
AllDigits(t) == \A i \in 1 .. Len(t) : IsDigit(t[i])

LastOf(S) == CHOOSE i \in S : \A j \in S : j <= i
FirstOf(S) == CHOOSE i \in S : \A j \in S : i <= j

(* str.rstrip(ch) *)
RStrip(t, ch) ==
    LET keep == {i \in 1 .. Len(t) : t[i] # ch}
    IN  IF keep = {} THEN <<>> ELSE SubSeq(t, 1, LastOf(keep))

LStrip(t, ch) ==
    LET keep == {i \in 1 .. Len(t) : t[i] # ch}
    IN  IF keep = {} THEN <<>> ELSE SubSeq(t, FirstOf(keep), Len(t))

(* str.lower() on the letters that occur in the inputs *)
UpperChars == <<"A", "B", "C", "E", "F", "I", "N", "T", "Y">>
LowerChars == <<"a", "b", "c", "e", "f", "i", "n", "t", "y">>
LowerChar(ch) ==
    IF \E i \in 1 .. Len(UpperChars) : UpperChars[i] = ch
    THEN LowerChars[CHOOSE i \in 1 .. Len(UpperChars) : UpperChars[i] = ch]
    ELSE ch
Lower(t) == [i \in 1 .. Len(t) |-> LowerChar(t[i])]

Zeros(n) == [i \in 1 .. n |-> "0"]

(* ---- exact naturals of any size: limbs of four decimal digits, the      *)
(* least significant first, the last limb nonzero -------------------------- *)
RECURSIVE BigOfNat(_)
BigOfNat(n) == IF n = 0 THEN <<>> ELSE <<n % 10000>> \o BigOfNat(n \div 10000)

RECURSIVE BigMulCarry(_, _, _)
BigMulCarry(x, k, carry) ==
    IF x = <<>> THEN BigOfNat(carry)
    ELSE LET t == Head(x) * k + carry
         IN  <<t % 10000>> \o BigMulCarry(Tail(x), k, t \div 10000)

(* x * k for an int 0 <= k < 200000 *)
BigMul(x, k) == IF k = 0 THEN <<>> ELSE BigMulCarry(x, k, 0)

RECURSIVE IntPow(_, _)
IntPow(base, n) == IF n <= 0 THEN 1 ELSE base * IntPow(base, n - 1)

(* x * base^n for base <= 10, a few factors at a time *)
RECURSIVE BigTimesPow(_, _, _)
BigTimesPow(x, base, n) ==
    IF n <= 0 THEN x
    ELSE LET step == IF n >= 4 THEN 4 ELSE n
             y == BigMul(x, IntPow(base, step))
         IN  IF Len(y) >= 0 THEN BigTimesPow(y, base, n - step) ELSE y

(* x * 10^n *)
BigShift(x, n) == BigTimesPow(x, 10, n)

BigLess(x, y) ==
    IF Len(x) # Len(y) THEN Len(x) < Len(y)
    ELSE \E i \in 1 .. Len(x) :
            x[i] < y[i] /\ \A j \in (i + 1) .. Len(x) : x[j] = y[j]
BigLeq(x, y) == x = y \/ BigLess(x, y)

(* the decimal digits of x, the units first, without leading zeros *)
BigDigits(x) ==
    LET all == [i \in 1 .. 4 * Len(x) |->
                   (x[((i - 1) \div 4) + 1] \div IntPow(10, (i - 1) % 4)) % 10]
        keep == {i \in 1 .. Len(all) : all[i] # 0}
    IN  IF keep = {} THEN <<>> ELSE SubSeq(all, 1, LastOf(keep))

(* a sequence of digits, the units first, as a text *)
DigitsText(d) ==
    IF d = <<>> THEN <<"0">> ELSE [i \in 1 .. Len(d) |-> DigitChar(d[Len(d) + 1 - i])]
BigText(x) == DigitsText(BigDigits(x))

RECURSIVE NatOfDigits(_)
NatOfDigits(t) ==
    IF t = <<>> THEN 0
    ELSE 10 * NatOfDigits(SubSeq(t, 1, Len(t) - 1)) + DigitValue(t[Len(t)])

(* the natural written by a text of digits *)
BigOfDigits(t) == BigOfNat(NatOfDigits(t))

(* ---- float(text), line 97 ------------------------------------------------ *)
(* what float() returns for a text it cannot parse is the ValueError it raises *)
Invalid == [k |-> "invalid", m |-> 0, e |-> 0]

Strip(t) == RStrip(LStrip(t, " "), " ")
IsSignChar(ch) == ch = "+" \/ ch = "-"
IsExpChar(ch) == ch = "e" \/ ch = "E"
FirstIndex(t, P(_)) ==
    IF \E i \in 1 .. Len(t) : P(t[i])
    THEN CHOOSE i \in 1 .. Len(t) : P(t[i]) /\ \A j \in 1 .. (i - 1) : ~P(t[j])
    ELSE 0
IsDot(ch) == ch = "."

(* num * 2^t, t counted on in steps of 8, until it reaches den * 2^(PBits+2) *)
RECURSIVE ScaleUp(_, _, _)
ScaleUp(num, den, t) ==
    IF BigLeq(BigMul(den, Pow2(PBits + 2)), num) THEN [num |-> num, t |-> t]
    ELSE LET y == BigMul(num, Pow2(8))
         IN  IF Len(y) >= 0 THEN ScaleUp(y, den, t + 8) ELSE [num |-> y, t |-> t]

(* den * 2^u for the least u, counted on, with num < den * 2^u * 2^(PBits+3) *)
RECURSIVE ScaleDown(_, _, _)
ScaleDown(num, den, u) ==
    IF BigLess(num, BigMul(den, Pow2(PBits + 3))) THEN [den |-> den, u |-> u]
    ELSE LET y == BigMul(den, 2)
         IN  IF Len(y) >= 0 THEN ScaleDown(num, y, u + 1) ELSE [den |-> y, u |-> u]

(* floor(num / den), built bit by bit from the top *)
RECURSIVE Quotient(_, _, _, _)
Quotient(num, den, qt, bit) ==
    IF bit = 0 THEN qt
    ELSE IF BigLeq(BigMul(den, qt + bit), num)
         THEN Quotient(num, den, qt + bit, bit \div 2)
         ELSE Quotient(num, den, qt, bit \div 2)

(* s * (num / den) * 2^e rounded once: qt = floor(num / den) has PBits + 3   *)
(* bits, and an inexact rest is kept in its last bit                         *)
RoundOdd(s, qt, num, den, e) ==
    RoundRat(s, IF BigMul(den, qt) # num /\ qt % 2 = 0 THEN qt + 1 ELSE qt, 1, e)
RoundDown(s, num, down, e) ==
    RoundOdd(s, Quotient(num, down.den, 0, Pow2(PBits + 2)), num, down.den, e + down.u)
RoundScaled(s, up, den, e) ==
    RoundDown(s, up.num, ScaleDown(up.num, den, 0), e - up.t)

(* the float nearest to s * D * 10^x, D a natural of nd digits: an infinity  *)
(* from 10^(nd+x-1) >= 2^(EMax+PBits+1) on, zero below 2^(EMin-2)            *)
RoundDigits(s, D, nd, x) ==
    IF nd = 0 THEN Zero
    ELSE IF nd + x - 1 >= 1 /\ 3 * (nd + x - 1) >= EMax + PBits + 1 THEN Inf(s)
    ELSE IF nd + x <= 0 /\ 3 * (0 - (nd + x)) >= EMinMag + 2 THEN Zero
    ELSE IF x >= 0 THEN RoundScaled(s, ScaleUp(BigShift(D, x), <<1>>, 0), <<1>>, 0)
    ELSE RoundScaled(s, ScaleUp(D, BigTimesPow(<<1>>, 5, 0 - x), 0),
                     BigTimesPow(<<1>>, 5, 0 - x), x)
RoundDecimal(s, D, x) == RoundDigits(s, D, Len(BigDigits(D)), x)

(* [sign] (digits [. digits] | . digits) [(e | E) [sign] digits], or nan, inf, *)
(* infinity in any case, between blanks                                      *)
ParseDigits(s, intp, frac, expValue) ==
    IF ~(AllDigits(intp) /\ AllDigits(frac) /\ Len(intp) + Len(frac) >= 1) THEN Invalid
    ELSE RoundDecimal(s, BigOfDigits(intp \o frac), expValue - Len(frac))
ParseMantissa(s, mant, dot, expValue) ==
    IF dot = 0 THEN ParseDigits(s, mant, <<>>, expValue)
    ELSE ParseDigits(s, SubSeq(mant, 1, dot - 1), SubSeq(mant, dot + 1, Len(mant)), expValue)
ParseWithExponent(s, mant, es, expDigits) ==
    IF ~(AllDigits(expDigits) /\ expDigits # <<>>) THEN Invalid
    ELSE ParseMantissa(s, mant, FirstIndex(mant, IsDot), es * NatOfDigits(expDigits))
ParseExponent(s, mant, expo) ==
    IF expo # <<>> /\ IsSignChar(Head(expo))
    THEN ParseWithExponent(s, mant, IF Head(expo) = "-" THEN 0 - 1 ELSE 1, Tail(expo))
    ELSE ParseWithExponent(s, mant, 1, expo)
ParseNumber(s, body, ePos) ==
    IF ePos = 0 THEN ParseMantissa(s, body, FirstIndex(body, IsDot), 0)
    ELSE ParseExponent(s, SubSeq(body, 1, ePos - 1), SubSeq(body, ePos + 1, Len(body)))
ParseBody(s, body) ==
    IF Lower(body) = <<"n", "a", "n">> THEN NaN
    ELSE IF Lower(body) = <<"i", "n", "f">>
            \/ Lower(body) = <<"i", "n", "f", "i", "n", "i", "t", "y">> THEN Inf(s)
    ELSE ParseNumber(s, body, FirstIndex(body, IsExpChar))
ParseSigned(t) ==
    IF t # <<>> /\ IsSignChar(Head(t))
    THEN ParseBody(IF Head(t) = "-" THEN 0 - 1 ELSE 1, Tail(t))
    ELSE ParseBody(1, t)
ParseFloat(input_str) == ParseSigned(Strip(input_str))

(* ---- float to text ------------------------------------------------------- *)
(* the number of digits asked of the format on line 105 *)
FixedDigits == 100

SignText(v) == IF v.m < 0 THEN <<"-">> ELSE <<>>

(* the digits K (units first) of a natural as a decimal with j digits after *)
(* the point, then zeros up to FixedDigits                                   *)
FixedText(K, j) ==
    DigitsText(IF Len(K) > j THEN SubSeq(K, j + 1, Len(K)) ELSE <<>>)
    \o <<".">>
    \o [i \in 1 .. j |-> IF j + 1 - i <= Len(K) THEN DigitChar(K[j + 1 - i]) ELSE "0"]
    \o Zeros(FixedDigits - j)

(* f"{double_value:.100f}": the exact decimal expansion of the float, which  *)
(* has -e <= FixedDigits fractional digits for every float of the format     *)
FormatFixed(v) ==
    IF IsNaN(v) THEN <<"n", "a", "n">>
    ELSE IF IsInf(v) THEN SignText(v) \o <<"i", "n", "f">>
    ELSE IF v.e < 0
    THEN SignText(v) \o FixedText(BigDigits(BigTimesPow(BigOfNat(AbsInt(v.m)), 5, 0 - v.e)),
                                  0 - v.e)
    ELSE SignText(v) \o FixedText(BigDigits(BigTimesPow(BigOfNat(AbsInt(v.m)), 2, v.e)), 0)

(* C lies in the interval of the decimals that round to the float: between  *)
(* LOB and HIB, the ends included when the mantissa is even                  *)
InInterval(C, LOB, HIB, even) ==
    /\ BigLess(LOB, C) \/ (even /\ LOB = C)
    /\ BigLess(C, HIB) \/ (even /\ C = HIB)

(* the first n of the L digits of VD as a natural *)
TopDigits(VD, L, n) == NatOfDigits(DigitsText(SubSeq(VD, L - n + 1, L)))

(* the shortest decimal top * 10^zeros (in units of the last digit of VB)    *)
(* that rounds back to the float whose value is VB and whose neighbours lie  *)
(* halfway at LOB and HIB; of two of the same length the nearer one          *)
RECURSIVE Shortest(_, _, _, _, _, _)
Candidates(VB, LOB, HIB, even, L, n, top, CT, CU) ==
    IF InInterval(CU, LOB, HIB, even)
       /\ (~InInterval(CT, LOB, HIB, even)
           \/ BigLess(BigShift(BigOfNat(2 * top + 1), L - n), BigMul(VB, 2)))
    THEN [digits |-> top + 1, zeros |-> L - n]
    ELSE IF InInterval(CT, LOB, HIB, even) THEN [digits |-> top, zeros |-> L - n]
    ELSE Shortest(VB, LOB, HIB, even, L, n + 1)
WithTop(VB, LOB, HIB, even, L, n, top) ==
    IF n >= L THEN [digits |-> top, zeros |-> 0]
    ELSE Candidates(VB, LOB, HIB, even, L, n, top,
                    BigShift(BigOfNat(top), L - n), BigShift(BigOfNat(top + 1), L - n))
Shortest(VB, LOB, HIB, even, L, n) ==
    WithTop(VB, LOB, HIB, even, L, n, TopDigits(BigDigits(VB), L, n))

RECURSIVE DropZeros(_)
DropZeros(d) ==
    IF d.digits % 10 = 0 THEN DropZeros([digits |-> d.digits \div 10, zeros |-> d.zeros + 1])
    ELSE d

(* n * 2^e as a natural scaled by 10^dp, dp = -e when e < 0 *)
Scaled(n, e) == IF e >= 0 THEN BigTimesPow(BigOfNat(n), 2, e)
                ELSE BigTimesPow(BigOfNat(n), 5, 0 - e)

DigitsAndPoint(d, dp) ==
    [digits |-> BigText(BigOfNat(d.digits)),
     decpt |-> Len(BigText(BigOfNat(d.digits))) + d.zeros - dp]
ShortestOf(VB, LOB, HIB, even, dp) ==
    DigitsAndPoint(DropZeros(Shortest(VB, LOB, HIB, even, Len(BigDigits(VB)), 1)), dp)

(* the digits of repr(v) and the place of the decimal point, for m * 2^e > 0: *)
(* in units of 2^(e-2) the float is 4m, the halfway point above 4m + 2, the   *)
(* one below 4m - 2, or 4m - 1 where the binade below begins                  *)
ShortestDigits(m, e) ==
    ShortestOf(Scaled(4 * m, e - 2),
               Scaled(4 * m - (IF m = Pow2(PBits - 1) /\ e > EMin THEN 1 ELSE 2), e - 2),
               Scaled(4 * m + 2, e - 2),
               m % 2 = 0,
               IF e - 2 >= 0 THEN 0 ELSE 2 - e)

(* float_repr_style 'short': exponent notation when the point lies more than *)
(* 16 digits right of the first digit or more than 3 zeros left of it        *)
ReprText(ds, decpt) ==
    IF decpt > 16 \/ decpt <= 0 - 4
    THEN <<Head(ds)>> \o (IF Len(ds) > 1 THEN <<".">> \o Tail(ds) ELSE <<>>)
         \o <<"e", IF decpt - 1 < 0 THEN "-" ELSE "+">>
         \o (IF AbsInt(decpt - 1) < 10 THEN <<"0">> ELSE <<>>)
         \o BigText(BigOfNat(AbsInt(decpt - 1)))
    ELSE IF decpt <= 0 THEN <<"0", ".">> \o Zeros(0 - decpt) \o ds
    ELSE IF decpt >= Len(ds) THEN ds \o Zeros(decpt - Len(ds)) \o <<".", "0">>
    ELSE SubSeq(ds, 1, decpt) \o <<".">> \o SubSeq(ds, decpt + 1, Len(ds))
ReprOf(sd) == ReprText(sd.digits, sd.decpt)

(* str(value) of a float: repr, the shortest text that float() reads back *)
Repr(v) ==
    IF IsNaN(v) THEN <<"n", "a", "n">>
    ELSE IF IsInf(v) THEN SignText(v) \o <<"i", "n", "f">>
    ELSE IF v.m = 0 THEN <<"0", ".", "0">>
    ELSE SignText(v) \o ReprOf(ShortestDigits(AbsInt(v.m), v.e))

(* math.floor(value) == value for a finite float *)
IsIntegral(v) == v.e >= 0 \/ v.m = 0 \/ (0 - v.e < PBits /\ v.m % Pow2(0 - v.e) = 0)

(* lines 83-86; math.floor raises for NaN and for an infinity *)
format_double_raises(v) ==
    IF IsNaN(v) THEN "ValueError" ELSE IF IsInf(v) THEN "OverflowError" ELSE "none"
format_double(v) ==
    IF IsIntegral(v)
    THEN SignText(v) \o BigText(IF v.m = 0 THEN <<>>
                                 ELSE IF v.e >= 0 THEN BigTimesPow(BigOfNat(AbsInt(v.m)), 2, v.e)
                                 ELSE BigOfNat(AbsInt(v.m) \div Pow2(0 - v.e)))
    ELSE Repr(v)

(* lines 97-116: the value returned, or the exception raised *)
Accepted(v) == [raised |-> "none", value |-> v]
Rejected(kind) == [raised |-> kind, value |-> Unset]
WithPoint(t) == IF Contains(t, ".") THEN t ELSE t \o <<".", "0">>
(* the comparison of line 112 without its second half *)
CheckPrecision_CanonicalOnly(input_str, double_value) ==
    IF double_value = Invalid THEN Rejected("ValueError")
    ELSE IF WithPoint(RStrip(RStrip(FormatFixed(double_value), "0"), ".")) # WithPoint(input_str)
         THEN Rejected("NotEnoughPrecisionException")
    ELSE Accepted(double_value)

(* lines 99-116 *)
CheckPrecision(input_str, double_value) ==
    IF double_value = Invalid THEN Rejected("ValueError")
    ELSE IF WithPoint(RStrip(RStrip(FormatFixed(double_value), "0"), ".")) # WithPoint(input_str)
            /\ Repr(double_value) # input_str
         THEN Rejected("NotEnoughPrecisionException")
    ELSE Accepted(double_value)
validate_input(input_str) == CheckPrecision(input_str, ParseFloat(input_str))

(* ---- main: the dialogue at the terminal ---------------------------------- *)
(* the lines main prints, each a text; a message is kept in one piece *)
Welcome == <<"Welcome to Quadratic Equation Solver.">>
AskedForZero == <<"'a' cannot be zero!">>
TooLargeOrSmall ==
    <<"The value you entered is too large or too small! Please enter a valid number.">>
NotAllowed ==
    <<"The value you entered is not allowed! Please enter a number. E.g. 4, 0.3, -12">>
FailedToSolve == <<"Failed to find an accurate solution!">>
Goodbye == <<"Thank you for using Quadratic Equation Solver!">>

(* what the user may type at any of the four prompts: numbers that are      *)
(* accepted (one of them zero, one NaN, one below the square root of the    *)
(* smallest float, one written as the float prints but not exactly equal to *)
(* it), numbers that are refused, texts that are no numbers, and answers.   *)
(* The sign of a zero is not modelled, so no text denotes -0.0.             *)
Texts ==
    {<<"1">>, <<"0">>, <<"2">>, <<"5">>, <<"-", "3">>, <<"-", "6", "4">>,
     <<"0", ".", "5">>, <<"0", ".", "1">>, <<"n", "a", "n">>,
     <<"1", "e", "-", "1", "2">>,
     <<"0", ".", "1", "0">>, <<"1", "e", "5">>,
     <<"a", "b", "c">>, <<>>,
     <<"y">>, <<"Y">>, <<"n">>}

(* validate_input on each text, computed once *)
ValidationTable == {<<t, validate_input(t)>> : t \in Texts}
Validated(t) == (CHOOSE p \in ValidationTable : p[1] = t)[2]

(* lines 157-163: the lines printed for a returned pair, up to the first     *)
(* format_double that raises                                                 *)
FirstRaise(u, v) ==
    IF format_double_raises(u) # "none" THEN format_double_raises(u)
    ELSE format_double_raises(v)
ComplexLine(name, sep, z) ==
    name \o <<" ", "=", " ">> \o format_double(z.re) \o sep \o format_double(z.im) \o <<"i">>
RealLine(name, x) == name \o <<" ", "=", " ">> \o format_double(x)
Shown(o) ==
    IF o.x1.cx THEN
        IF FirstRaise(o.x1.re, o.x1.im) # "none"
        THEN [lines |-> <<>>, raised |-> FirstRaise(o.x1.re, o.x1.im)]
        ELSE IF FirstRaise(o.x2.re, o.x2.im) # "none"
        THEN [lines |-> <<ComplexLine(<<"x", "1">>, <<" ", "+", " ">>, o.x1)>>,
              raised |-> FirstRaise(o.x2.re, o.x2.im)]
        ELSE [lines |-> <<ComplexLine(<<"x", "1">>, <<" ", "+", " ">>, o.x1),
                          ComplexLine(<<"x", "2">>, <<" ", "-", " ">>, o.x2)>>,
              raised |-> "none"]
    ELSE
        IF format_double_raises(o.x1.re) # "none"
        THEN [lines |-> <<>>, raised |-> format_double_raises(o.x1.re)]
        ELSE IF Eq(o.x1.re, o.x2.re)
        THEN [lines |-> <<RealLine(<<"x", "1">>, o.x1.re)>>, raised |-> "none"]
        ELSE IF format_double_raises(o.x2.re) # "none"
        THEN [lines |-> <<RealLine(<<"x", "1">>, o.x1.re)>>,
              raised |-> format_double_raises(o.x2.re)]
        ELSE [lines |-> <<RealLine(<<"x", "1">>, o.x1.re), RealLine(<<"x", "2">>, o.x2.re)>>,
              raised |-> "none"]

(* main is at one of its input() calls *)
Reading == pc \in {"main_a", "main_b", "main_c"}

(* lines 120-127 *)
InitMain ==
    /\ pc = "main_a"
    /\ a = Unset /\ b = Unset /\ c = Unset
    /\ discriminant = Unset /\ value = Unset /\ previous = Unset
    /\ result = Unset /\ sqrt = Unset /\ q = Unset
    /\ calls = 0 /\ out = NoOutcome
    /\ saved = <<>> /\ running = 0
    /\ text = <<>> /\ printed = <<Welcome>>
    /\ NoDates

solverLocals == <<discriminant, value, previous, result, sqrt, q, calls, out>>

(* lines 130-137, a is accepted and is not zero *)
ReadA ==
    /\ pc = "main_a"
    /\ \E t \in Texts :
          /\ Validated(t).raised = "none" /\ ~Eq(Validated(t).value, Zero)
          /\ text' = t /\ a' = Validated(t).value
    /\ printed' = <<>>
    /\ pc' = "main_b"
    /\ UNCHANGED <<b, c, saved, running, dateVars>>
    /\ UNCHANGED solverLocals

(* main without the test of line 134 *)
ReadZeroA_GoesOn ==
    /\ pc = "main_a"
    /\ \E t \in Texts :
          /\ Validated(t).raised = "none" /\ Eq(Validated(t).value, Zero)
          /\ text' = t /\ a' = Validated(t).value
    /\ printed' = <<>>
    /\ pc' = "main_b"
    /\ UNCHANGED <<b, c, saved, running, dateVars>>
    /\ UNCHANGED solverLocals

(* lines 130-136 *)
ReadZeroA ==
    /\ pc = "main_a"
    /\ \E t \in Texts :
          /\ Validated(t).raised = "none" /\ Eq(Validated(t).value, Zero)
          /\ text' = t /\ a' = Validated(t).value
    /\ printed' = <<AskedForZero>>
    /\ pc' = "main_a"
    /\ UNCHANGED <<b, c, saved, running, dateVars>>
    /\ UNCHANGED solverLocals

(* line 137 *)
ReadB ==
    /\ pc = "main_b"
    /\ \E t \in Texts :
          /\ Validated(t).raised = "none"
          /\ text' = t /\ b' = Validated(t).value
    /\ printed' = <<>>
    /\ pc' = "main_c"
    /\ UNCHANGED <<a, c, saved, running, dateVars>>
    /\ UNCHANGED solverLocals

(* lines 138 and 152: c is accepted and solve_quadratic(a, b, c) is entered *)
ReadC ==
    /\ pc = "main_c"
    /\ \E t \in Texts :
          /\ Validated(t).raised = "none"
          /\ text' = t /\ c' = Validated(t).value
    /\ printed' = <<>>
    /\ pc' = "solve_quadratic"
    /\ discriminant' = Unset /\ value' = Unset /\ previous' = Unset
    /\ result' = Unset /\ sqrt' = Unset /\ q' = Unset
    /\ calls' = 0 /\ out' = NoOutcome
    /\ UNCHANGED <<a, b, saved, running, dateVars>>

(* a handler that asks for the same coefficient again *)
RejectPrecision_AsksSameAgain ==
    /\ Reading
    /\ \E t \in Texts :
          /\ Validated(t).raised = "NotEnoughPrecisionException"
          /\ text' = t
    /\ printed' = <<TooLargeOrSmall>>
    /\ pc' = pc
    /\ UNCHANGED <<a, b, c, saved, running, dateVars>>
    /\ UNCHANGED solverLocals

(* lines 139-143 *)
RejectPrecision ==
    /\ Reading
    /\ \E t \in Texts :
          /\ Validated(t).raised = "NotEnoughPrecisionException"
          /\ text' = t
    /\ printed' = <<TooLargeOrSmall>>
    /\ pc' = "main_a"
    /\ UNCHANGED <<a, b, c, saved, running, dateVars>>
    /\ UNCHANGED solverLocals

(* lines 144-148 *)
RejectNotANumber ==
    /\ Reading
    /\ \E t \in Texts :
          /\ Validated(t).raised = "ValueError"
          /\ text' = t
    /\ printed' = <<NotAllowed>>
    /\ pc' = "main_a"
    /\ UNCHANGED <<a, b, c, saved, running, dateVars>>
    /\ UNCHANGED solverLocals

(* the frame of the call of solve_quadratic is gone once main has taken its *)
(* outcome                                                                  *)
ForgetCall ==
    /\ discriminant' = Unset /\ value' = Unset /\ previous' = Unset
    /\ result' = Unset /\ sqrt' = Unset /\ q' = Unset /\ calls' = 0

(* lines 153-163: every format_double returns *)
ShowRoots ==
    /\ pc = "done" /\ out.kind = "pair"
    /\ Shown(out).raised = "none"
    /\ printed' = printed \o Shown(out).lines
    /\ pc' = "main_prompt"
    /\ out' = NoOutcome
    /\ ForgetCall
    /\ UNCHANGED <<a, b, c, saved, running, dateVars, text>>

(* lines 153-163: a format_double raises; only NotEnoughPrecisionException  *)
(* is caught on line 165, so the exception leaves main                      *)
ShowRootsRaises ==
    /\ pc = "done" /\ out.kind = "pair"
    /\ Shown(out).raised # "none"
    /\ printed' = printed \o Shown(out).lines
    /\ out' = Raised(Shown(out).raised)
    /\ pc' = "main_raised"
    /\ ForgetCall
    /\ UNCHANGED <<a, b, c, saved, running, dateVars, text>>

(* a handler that restarts the round without the prompt of line 173 *)
SolveFailed_NoPrompt ==
    /\ pc = "done" /\ out = Raised("NotEnoughPrecisionException")
    /\ printed' = printed \o <<FailedToSolve>>
    /\ pc' = "main_a"
    /\ out' = NoOutcome
    /\ ForgetCall
    /\ UNCHANGED <<a, b, c, saved, running, dateVars, text>>

(* lines 165-170 *)
SolveFailed ==
    /\ pc = "done" /\ out = Raised("NotEnoughPrecisionException")
    /\ printed' = printed \o <<FailedToSolve>>
    /\ pc' = "main_prompt"
    /\ out' = NoOutcome
    /\ ForgetCall
    /\ UNCHANGED <<a, b, c, saved, running, dateVars, text>>

(* lines 151-165: an exception of solve_quadratic that line 165 does not catch *)
SolveRaises ==
    /\ pc = "done" /\ out.kind \in {"ValueError", "ZeroDivisionError"}
    /\ pc' = "main_raised"
    /\ ForgetCall
    /\ UNCHANGED <<a, b, c, saved, running, dateVars, text, printed, out>>

(* lines 173-174, the answer is y or Y *)
TryAgain ==
    /\ pc = "main_prompt"
    /\ \E t \in Texts :
          /\ Lower(t) = <<"y">>
          /\ text' = t
    /\ printed' = <<>>
    /\ pc' = "main_a"
    /\ UNCHANGED <<a, b, c, saved, running, dateVars>>
    /\ UNCHANGED solverLocals

(* lines 173-178 *)
Decline ==
    /\ pc = "main_prompt"
    /\ \E t \in Texts :
          /\ Lower(t) # <<"y">>
          /\ text' = t
    /\ printed' = <<Goodbye>>
    /\ pc' = "main_end"
    /\ UNCHANGED <<a, b, c, saved, running, dateVars>>
    /\ UNCHANGED solverLocals

NextMain ==
    \/ ReadA
    \/ ReadZeroA
    \/ ReadB
    \/ ReadC
    \/ RejectPrecision
    \/ RejectNotANumber
    \/ ComputeDiscriminant
    \/ RaiseNotEnoughPrecision
    \/ CallSqrt
    \/ SqrtOfZero
    \/ SqrtSeed
    \/ NewtonIterate
    \/ NewtonReturn
    \/ ComplexRoots
    \/ RealRoots
    \/ ShowRoots
    \/ ShowRootsRaises
    \/ SolveFailed
    \/ SolveRaises
    \/ TryAgain
    \/ Decline

(* runs of main *)
SpecMain == InitMain /\ [][NextMain]_vars

(* ---- calls of validate_input on their own -------------------------------- *)
MaxTextLen == 3
ValidateAlphabet == {"0", "1", "5", ".", "e", "-", "n", "a"}

(* a text that float() reads as -0.0; the sign of zero is not modelled *)
DenotesNegativeZero(t) ==
    /\ Strip(t) # <<>> /\ Head(Strip(t)) = "-"
    /\ IsZero(ParseFloat(t))

(* every text of up to MaxTextLen characters, and the texts typed into main *)
ValidateTexts ==
    {t \in Texts \cup UNION {[1 .. n -> ValidateAlphabet] : n \in 0 .. MaxTextLen} :
        ~DenotesNegativeZero(t)}

InitValidate ==
    /\ text \in ValidateTexts
    /\ pc = "validate_input"
    /\ a = Unset /\ b = Unset /\ c = Unset
    /\ discriminant = Unset /\ value = Unset /\ previous = Unset
    /\ result = Unset /\ sqrt = Unset /\ q = Unset
    /\ calls = 0 /\ out = NoOutcome
    /\ saved = <<>> /\ running = 0 /\ printed = <<>>
    /\ NoDates

ValidateOutcome(r) ==
    IF r.raised = "none" THEN ReturnedValue(r.value) ELSE Raised(r.raised)

(* lines 89-116 *)
ValidateInput ==
    /\ pc = "validate_input"
    /\ out' = ValidateOutcome(validate_input(text))
    /\ pc' = "done"
    /\ UNCHANGED <<a, b, c, discriminant, value, previous, result, sqrt, q, calls>>
    /\ UNCHANGED env

NextValidate == ValidateInput

(* calls of validate_input *)
SpecValidate == InitValidate /\ [][NextValidate]_vars

(* the parsed value as a canonical decimal string, and a text normalized the *)
(* same way: trailing zeros stripped, '.0' appended when nothing follows     *)
Canonical(t) ==
    WithPoint(IF Contains(t, ".") THEN RStrip(RStrip(t, "0"), ".") ELSE t)
Parsed == ParseFloat(text) # Invalid
ValidateDone == pc = "done" /\ out.kind \in {"value", "ValueError", "NotEnoughPrecisionException"}

Tiny == ParseFloat(<<"1", "e", "-", "1", "2">>)

(* C13: every error signalled by validate_input or solve_quadratic while     *)
(* main is running is handled inside main's loop; none propagates out of     *)
(* main.  Here: a call of solve_quadratic that ends by raising never makes   *)
(* main end with that exception.                                             *)
C13_NoErrorLeavesMain ==
    [][(pc = "done" /\ out.kind \in {"NotEnoughPrecisionException", "ValueError"})
          => pc' # "main_raised"]_vars

(* a = c = 1e-12, b = 0: 4ac underflows, q = 0 with c # 0, and the           *)
(* ValueError of line 33 has ended main                                      *)
C13_Witness ==
    /\ pc = "main_raised" /\ out = Raised("ValueError")
    /\ a = Tiny /\ IsFin(a) /\ ~Eq(a, Zero) /\ b = Zero /\ c = Tiny

(* C16: main never calls solve_quadratic with a == 0: when the validated     *)
(* value of 'a' is zero it prints the rejection message, reads neither b nor *)
(* c for that round, and the next input is read as a new 'a'.                *)
C16_ZeroARejected ==
    [][/\ pc' = "solve_quadratic" => (a' # Unset /\ ~Eq(a', Zero))
       /\ (/\ pc = "main_a"
           /\ Validated(text').raised = "none"
           /\ Eq(Validated(text').value, Zero))
            => /\ printed' = <<AskedForZero>>
               /\ pc' = "main_a"
               /\ b' = b /\ c' = c]_vars

(* a zero was typed for 'a' in the first round: the message is out, b and c  *)
(* have not been read and main is back at the input of 'a'                   *)
C16_Witness ==
    /\ pc = "main_a" /\ text = <<"0">>
    /\ a = Zero /\ b = Unset /\ c = Unset
    /\ printed = <<AskedForZero>>

(* the name and the equals sign a printed line starts with *)
LineStart(l) == SubSeq(l, 1, 5)
LineStarts(ls) == [i \in 1 .. Len(ls) |-> LineStart(ls[i])]
X1Start == <<"x", "1", " ", "=", " ">>
X2Start == <<"x", "2", " ", "=", " ">>
RealPairDone == pc = "done" /\ out.kind = "pair" /\ ~out.x1.cx

(* C17: when solve_quadratic returns two equal real roots main prints only   *)
(* the 'x1 = ...' line and no 'x2 = ...' line; when the two real roots       *)
(* differ it prints both lines, x1 first.                                    *)
C17_SecondRootOmittedWhenEqual ==
    [][RealPairDone =>
          LineStarts(printed') =
              LineStarts(printed) \o
                  (IF Eq(out.x1.re, out.x2.re) THEN <<X1Start>> ELSE <<X1Start, X2Start>>)]_vars

(* a = 1e-12, b = -64, c = 1: solve_quadratic returned x1 = inf and a finite *)
(* x2; format_double raised OverflowError on line 83 before any line was     *)
(* printed and the exception has ended main                                  *)
C17_Witness ==
    /\ pc = "main_raised" /\ out = Raised("OverflowError")
    /\ a = Tiny /\ b = Num(0 - 64) /\ c = Num(1)
    /\ printed = <<>>

(* C18: main loops until the user declines: it returns only after a 'try     *)
(* again' prompt is answered with something other than 'y' in either case,   *)
(* every 'y' answer starts one more round, the prompt is shown after every   *)
(* solve attempt, successful or failed with NotEnoughPrecisionException, and *)
(* the goodbye line is printed once, as the last output.                     *)
C18_LoopsUntilDeclined ==
    [][/\ (pc # pc' /\ pc' \in {"main_end", "main_raised"})
            => /\ pc = "main_prompt" /\ Lower(text') # <<"y">>
               /\ pc' = "main_end" /\ printed' = <<Goodbye>>
       /\ (pc = "main_prompt" /\ Lower(text') = <<"y">>)
            => pc' = "main_a" /\ Goodbye \notin {printed'[i] : i \in 1 .. Len(printed')}
       /\ (pc = "done" /\ out.kind \in {"pair", "NotEnoughPrecisionException"})
            => pc' = "main_prompt"
       /\ pc = "main_end" => pc' = "main_end"]_vars

(* a = 1e-12, b = 1, c = 5: the solve attempt returned a pair of real roots, *)
(* main has ended with OverflowError, the prompt was never shown and the     *)
(* goodbye line is not printed                                               *)
C18_Witness ==
    /\ pc = "main_raised" /\ out = Raised("OverflowError")
    /\ a = Tiny /\ b = Num(1) /\ c = Num(5)
    /\ Goodbye \notin {printed[i] : i \in 1 .. Len(printed)}

MessageFor(kind) ==
    IF kind = "NotEnoughPrecisionException" THEN TooLargeOrSmall ELSE NotAllowed
AcceptedStep(r, at, coefficient, next) ==
    (pc = at /\ r.raised = "none" /\ (at = "main_a" => ~Eq(r.value, Zero)))
        => coefficient = r.value /\ pc' = next
RefusedStep(r) ==
    (Reading /\ r.raised # "none")
        => /\ printed' = <<MessageFor(r.raised)>>
           /\ pc' = "main_a"
           /\ UNCHANGED solverLocals

(* C19: after a validation failure on any of a, b or c main prints the       *)
(* matching message, drops the round (no call of solve_quadratic, no 'try    *)
(* again' prompt) and takes the next input as a new 'a'; three valid         *)
(* coefficients entered in a row are passed to solve_quadratic.              *)
C19_FailedInputRestartsRound ==
    [][Reading =>
          /\ RefusedStep(Validated(text'))
          /\ AcceptedStep(Validated(text'), "main_a", a', "main_b")
          /\ AcceptedStep(Validated(text'), "main_b", b', "main_c") /\ (pc = "main_b" => a' = a)
          /\ AcceptedStep(Validated(text'), "main_c", c', "solve_quadratic")
          /\ (pc = "main_c" => a' = a /\ b' = b)
          /\ pc' = "solve_quadratic" => pc = "main_c"]_vars

(* in the first round 'a' was read as 1 and the text 1e5 typed for 'b' was   *)
(* refused: the message is out and main is back at the input of 'a'          *)
C19_Witness ==
    /\ pc = "main_a" /\ text = <<"1", "e", "5">>
    /\ a = Num(1) /\ b = Unset /\ c = Unset
    /\ printed = <<TooLargeOrSmall>>
    /\ out = NoOutcome

NaNText == <<"n", "a", "n">>
NaNEntered == IsNaN(a) \/ IsNaN(b) \/ IsNaN(c)
AfterInput(at) ==
    IF at = "main_a" THEN "main_b" ELSE IF at = "main_b" THEN "main_c" ELSE "solve_quadratic"
ReadInto(at, first, second, third) ==
    IF at = "main_a" THEN first ELSE IF at = "main_b" THEN second ELSE third

(* C20: the text 'nan' is accepted by validate_input and passes main's       *)
(* a == 0 check; the round then ends with the 'Failed to find an accurate    *)
(* solution' message and no root line, followed by the 'try again' prompt,   *)
(* from which a further round can be started.                                *)
C20_NaNRoundFailsThenPrompts ==
    /\ [][/\ (Reading /\ text' = NaNText) => (pc' = AfterInput(pc) /\ IsNaN(ReadInto(pc, a', b', c')))
          /\ (pc = "done" /\ NaNEntered)
                => /\ out = Raised("NotEnoughPrecisionException")
                   /\ printed = <<>> /\ printed' = <<FailedToSolve>>
                   /\ pc' = "main_prompt"]_vars
    /\ []((pc = "main_prompt" /\ NaNEntered) => ENABLED TryAgain)

(* 'nan' was typed for c in an earlier round; that round is over, the answer *)
(* to the prompt was 'y', and the next round has read a = 1 and b = -3       *)
C20_Witness ==
    /\ pc = "main_c" /\ a = Num(1) /\ b = Num(0 - 3) /\ IsNaN(c)
    /\ text = <<"-", "3">> /\ printed = <<>>

(* ---- the square root and the branches of solve_quadratic ------------------ *)
(* C27: solve_quadratic only ever calls sqrt_by_newton with a non-negative   *)
(* argument: -D in the complex branch, where D < 0, and D in the real        *)
(* branch, where D >= 0.                                                     *)
C27_SqrtArgumentNonNegative ==
    (calls > 0) =>
        /\ value # Unset /\ ~IsNaN(value) /\ ~Lt(value, Zero)
        /\ value = IF Lt(discriminant, Zero) THEN Neg(discriminant) ELSE discriminant

(* the complex branch has just called sqrt_by_newton with -D > 0 *)
C27_Witness ==
    /\ pc = "sqrt_by_newton" /\ calls = 1
    /\ a = Num(1) /\ b = Num(2) /\ c = Num(5)
    /\ discriminant = Num(0 - 16) /\ value = Num(16)

(* C25: for a true quadratic (a # 0) the invalid state is unreachable: in    *)
(* the real branch q == 0 happens only when b == 0 and D == 0, which forces  *)
(* c == 0, so solve_quadratic never raises the q == 0 / c # 0 error.         *)
C25_InvalidStateUnreachable ==
    (RealBranchDone /\ FiniteCoefficients /\ TrueQuadratic /\ Eq(q, Zero)) =>
        /\ Eq(b, Zero) /\ Eq(discriminant, Zero) /\ Eq(sqrt, Zero)
        /\ Eq(c, Zero)
        /\ out # Raised("ValueError")

(* a = c = the smallest positive float, b = 0: 4ac underflows to 0, so D = 0 *)
(* and q = 0 with c # 0, and the call has raised ValueError                  *)
C25_Witness ==
    /\ RealBranchDone /\ a = MinSub /\ b = Zero /\ c = MinSub
    /\ discriminant = Zero /\ sqrt = Zero /\ Eq(q, Zero)
    /\ out = Raised("ValueError")

(* calls of sqrt_by_newton in which a statement that can run does run *)
FairArguments ==
    {Inf(1), MaxFin, MinSub, Zero, Num(1), Num(2), Num(3), Num(16), Num(20),
     Num(5), Num(6), TwoTo(0 - 1), TwoTo(0 - 20), TwoTo(0 - 31), TwoTo(EMax),
     TwoTo(PBits + 2), RoundRat(1, 7, 2, 0)}
InitSqrtFair == InitSqrt /\ value \in FairArguments

(* the statements of lines 63-72 *)
LoopStatement == SqrtSeed \/ NewtonIterate \/ NewtonReturn
(* ENABLED <<LoopStatement>>_vars written out: line 63 can run, or a pass of *)
(* the loop can run and changes a variable                                   *)
LoopStatementEnabled ==
    \/ pc = "sqrt_by_newton" /\ ~Eq(value, Zero)
    \/ /\ pc = "loop"
       /\ NewtonResult(value, previous) # ZDE
       /\ \/ Converged(previous, NewtonResult(value, previous))
          \/ NewtonResult(value, previous) # previous
          \/ NewtonResult(value, previous) # result

(* the interpreter runs the next statement whenever there is one: weak      *)
(* fairness of every statement, that of the loop statements in the form     *)
(* []<>~ENABLED <<A>>_vars \/ []<><<A>>_vars                                 *)
SpecSqrtFair ==
    /\ InitSqrtFair /\ [][NextSqrt]_vars
    /\ WF_vars(SqrtOfZero) /\ WF_vars(SqrtReturn)
    /\ ([]<>(~LoopStatementEnabled) \/ []<><<LoopStatement>>_vars)

(* C26: sqrt_by_newton terminates for every value > 0: starting from         *)
(* (1 + value) / 2 and applying next = (prev + value / prev) / 2 the loop    *)
(* reaches two successive iterates that differ by less than 1e-8 and returns *)
C26_NewtonTerminates ==
    (pc = "sqrt_by_newton" /\ Lt(Zero, value)) ~> (pc = "done" /\ out = ReturnedValue(sqrt))

(* value = +inf: the seed is inf, the first iterate (inf + inf / inf) / 2 is *)
(* NaN, and abs(previous - result) < ERROR is false from then on             *)
C26_Witness ==
    /\ pc = "loop" /\ value = Inf(1)
    /\ IsNaN(previous) /\ IsNaN(NewtonResult(value, previous))
    /\ ~Converged(previous, NewtonResult(value, previous))

Iterating == pc = "loop" /\ Lt(Zero, value)

(* C28 as stated: for value > 0, at every iteration previous is strictly     *)
(* positive and previous * previous >= value, value / previous never divides *)
(* by zero, the iterates never increase, and the returned result r never     *)
(* underestimates the square root (r * r >= value).                          *)
C28_NeverBelowTheRoot ==
    /\ Iterating =>
         /\ IsFin(previous) /\ Lt(Zero, previous)
         /\ NewtonResult(value, previous) # ZDE
         /\ ~Lt(previous, NewtonResult(value, previous))
         /\ DyLeq(DyOf(value), DySquare(previous))
    /\ (SqrtDone /\ Lt(Zero, value)) =>
         /\ IsFin(sqrt) /\ DyLeq(DyOf(value), DySquare(sqrt))

(* C28 amended: for value > 0, at every iteration previous is neither zero   *)
(* nor negative, so value / previous never divides by zero, and no iterate   *)
(* is larger than the one before it; a result that is returned is finite and *)
(* positive.  (previous * previous and r * r can fall below value.)          *)
C28_IteratesPositiveAndNotIncreasing ==
    /\ Iterating =>
         /\ previous # Unset /\ ~Eq(previous, Zero) /\ ~Lt(previous, Zero)
         /\ NewtonResult(value, previous) # ZDE
         /\ ~Lt(previous, NewtonResult(value, previous))
    /\ (SqrtDone /\ Lt(Zero, value)) =>
         /\ IsFin(sqrt) /\ Lt(Zero, sqrt)
         /\ ~Lt(previous, sqrt)

(* sqrt_by_newton(2) has returned r with r * r < 2 after iterates that never *)
(* rose                                                                      *)
C28_Witness ==
    /\ SqrtDone /\ value = Num(2)
    /\ IsFin(sqrt) /\ Lt(Zero, sqrt) /\ ~Lt(previous, sqrt)
    /\ ~DyLeq(DyOf(value), DySquare(sqrt))

(* ---- what a printed line of complex roots denotes ------------------------- *)
(* the line 'xN = R + Mi' denotes R + M*i and 'xN = R - Mi' denotes R - M*i  *)
DenotedParts(body, sp) ==
    Complex(ParseFloat(SubSeq(body, 1, sp - 1)),
            IF body[sp + 1] = "+" THEN ParseFloat(SubSeq(body, sp + 3, Len(body)))
            ELSE Neg(ParseFloat(SubSeq(body, sp + 3, Len(body)))))
DenotedBody(body) ==
    DenotedParts(body, CHOOSE i \in 1 .. Len(body) :
                           body[i] = " " /\ \A j \in 1 .. (i - 1) : body[j] # " ")
DenotedBy(line) == DenotedBody(SubSeq(line, 6, Len(line) - 1))
ComplexPairShown ==
    /\ pc = "done" /\ out.kind = "pair" /\ out.x1.cx
    /\ Len(printed') = Len(printed) + 2

(* C29: in main's display of complex roots the 'x2 = R - M i' line denotes   *)
(* the second root returned by solve_quadratic, and it differs from the      *)
(* value denoted by the 'x1 = R + M i' line whenever the imaginary part is   *)
(* nonzero.                                                                  *)
C29_SecondLineDenotesSecondRoot ==
    [][ComplexPairShown =>
          /\ DenotedBy(printed'[Len(printed')]) = out.x2
          /\ ~Eq(out.x1.im, Zero) =>
                DenotedBy(printed'[Len(printed')]) # DenotedBy(printed'[Len(printed') - 1])]_vars

(* a = 1, b = 2, c = 5: the roots -1 + 2i and -1 - 2i were shown as          *)
(* 'x1 = -1 + 2i' and 'x2 = -1 - -2i', and the second line denotes -1 + 2i   *)
C29_Witness ==
    /\ pc = "main_prompt" /\ a = Num(1) /\ b = Num(2) /\ c = Num(5)
    /\ printed = << <<"x", "1", " ", "=", " ", "-", "1", " ", "+", " ", "2", "i">>,
                    <<"x", "2", " ", "=", " ", "-", "1", " ", "-", " ", "-", "2", "i">> >>
    /\ DenotedBy(printed[2]) = Complex(Num(0 - 1), Num(2))
    /\ DenotedBy(printed[2]) = DenotedBy(printed[1])

(* ---- src/src/quadratic.py: the variant of solve_quadratic that prints ----- *)
PrecisionLost_NaNOnly(d, fb) == IsNaN(d)

(* line 19: math.isnan(discriminant) or discriminant == b * b *)
PrecisionLost(d, fb) == IsNaN(d) \/ Eq(d, Mul(fb, fb))

(* the call returned None after printing *)
ReturnedNone == [kind |-> "printed", x1 |-> Real(Unset), x2 |-> Real(Unset)]
Outcome(o, ls) == [outcome |-> o, lines |-> ls]
NumberFormat == Outcome(Raised("NumberFormatException"), <<>>)
DivisionByZero == Outcome(Raised("ZeroDivisionError"), <<>>)

(* lines 27-34, real and imaginary being the texts of lines 24-25 *)
ComplexOutput(real, imaginary) ==
    << <<"x", "1", " ", "=", " ">>
           \o (IF real # <<"0">> THEN real \o <<" ", "+", " ">> ELSE <<>>)
           \o (IF imaginary # <<"1">> THEN imaginary ELSE <<>>) \o <<"i">>,
       <<"x", "2", " ", "=", " ">>
           \o (IF real # <<"0">> THEN real \o <<" ", "-", " ">> ELSE <<"-">>)
           \o (IF imaginary # <<"1">> THEN imaginary ELSE <<>>) \o <<"i">> >>

(* lines 23-34, after the square root *)
PrintingComplexFormat(re, im) ==
    IF re = ZDE THEN DivisionByZero
    ELSE IF format_double_raises(re) # "none" THEN NumberFormat
    ELSE IF im = ZDE THEN DivisionByZero
    ELSE IF format_double_raises(im) # "none" THEN NumberFormat
    ELSE Outcome(ReturnedNone, ComplexOutput(format_double(re), format_double(im)))
PrintingComplexBranch(fa, fb, s) ==
    PrintingComplexFormat(Div(Mul(Num(0 - 1), fb), Mul(Num(2), fa)), Div(s, Mul(Num(2), fa)))

(* lines 42-44, x1 and x2 being the texts of lines 39-40 *)
RealOutput(x1, x2) ==
    IF x1 # x2 THEN << <<"x", "1", " ", "=", " ">> \o x1, <<"x", "2", " ", "=", " ">> \o x2 >>
    ELSE << <<"x", "1", " ", "=", " ">> \o x1 >>

(* lines 39-44: q / a, its text, c / q, its text, the output *)
PrintingRealFormat(x1, x2) ==
    IF x1 = ZDE THEN DivisionByZero
    ELSE IF format_double_raises(x1) # "none" THEN NumberFormat
    ELSE IF x2 = ZDE THEN DivisionByZero
    ELSE IF format_double_raises(x2) # "none" THEN NumberFormat
    ELSE Outcome(ReturnedNone, RealOutput(format_double(x1), format_double(x2)))
PrintingRealBranch(fa, fc, fq) == PrintingRealFormat(Div(fq, fa), Div(fc, fq))

(* lines 19-20 *)
PrintingRaise ==
    /\ pc = "isnan" /\ PrecisionLost(discriminant, b)
    /\ out' = Raised("NotEnoughPrecisionException")
    /\ pc' = "done"
    /\ UNCHANGED <<a, b, c, discriminant, value, previous, result, sqrt, q, calls>>
    /\ UNCHANGED env

(* lines 22-23 and 35-36: the call of sqrt_by_newton *)
PrintingCallSqrt ==
    /\ pc = "isnan" /\ ~PrecisionLost(discriminant, b)
    /\ value' = IF Lt(discriminant, Zero) THEN Mul(Num(0 - 1), discriminant)
                ELSE discriminant
    /\ calls' = calls + 1
    /\ pc' = "sqrt_by_newton"
    /\ UNCHANGED <<a, b, c, discriminant, previous, result, sqrt, q, out>>
    /\ UNCHANGED env

(* lines 24-34 *)
PrintingComplexRoots ==
    /\ pc = "returned" /\ Lt(discriminant, Zero)
    /\ out' = PrintingComplexBranch(a, b, sqrt).outcome
    /\ printed' = PrintingComplexBranch(a, b, sqrt).lines
    /\ pc' = "done"
    /\ UNCHANGED <<a, b, c, discriminant, value, previous, result, sqrt, q, calls>>
    /\ UNCHANGED <<saved, running, dateVars, text>>

(* lines 38-44 *)
PrintingRealRoots ==
    /\ pc = "returned" /\ ~Lt(discriminant, Zero)
    /\ q' = QOf(b, sqrt)
    /\ out' = PrintingRealBranch(a, c, QOf(b, sqrt)).outcome
    /\ printed' = PrintingRealBranch(a, c, QOf(b, sqrt)).lines
    /\ pc' = "done"
    /\ UNCHANGED <<a, b, c, discriminant, value, previous, result, sqrt, calls>>
    /\ UNCHANGED <<saved, running, dateVars, text>>

NextPrinting ==
    \/ ComputeDiscriminant
    \/ PrintingRaise
    \/ PrintingCallSqrt
    \/ SqrtOfZero
    \/ SqrtSeed
    \/ NewtonIterate
    \/ NewtonReturn
    \/ PrintingComplexRoots
    \/ PrintingRealRoots

(* calls of solve_quadratic of src/quadratic.py *)
SpecPrinting == Init /\ [][NextPrinting]_vars

(* C30: the printing variant of the solver never divides by zero for any     *)
(* finite (a, b, c): whenever q would be 0 or a is 0 the discriminant equals *)
(* b * b, so the check of line 19 has raised NotEnoughPrecisionException     *)
(* before q / a or c / q is evaluated; consequently every equation with      *)
(* c == 0 is rejected.                                                       *)
C30_PrintingVariantNeverDividesByZero ==
    FiniteCoefficients =>
        /\ out # Raised("ZeroDivisionError")
        /\ (discriminant # Unset /\ Eq(a, Zero)) => Eq(discriminant, Mul(b, b))
        /\ (pc \notin {"solve_quadratic", "isnan"} /\ (Eq(a, Zero) \/ Eq(c, Zero)))
              => /\ pc = "done" /\ calls = 0
                 /\ out = Raised("NotEnoughPrecisionException")
        /\ q # Unset => ~Eq(q, Zero)
        /\ (pc = "returned" /\ ~Lt(discriminant, Zero)) => ~Eq(QOf(b, sqrt), Zero)

(* a = 0, b = 2, c = 1: the discriminant 4 equals b * b and the call has     *)
(* raised before any square root or division                                 *)
C30_Witness ==
    /\ Done /\ a = Zero /\ b = Num(2) /\ c = Num(1)
    /\ discriminant = Num(4) /\ calls = 0 /\ q = Unset
    /\ out = Raised("NotEnoughPrecisionException")

(* ======================================================================== *)
(* date_helper.py: the formats, datetime.strptime and strftime as the       *)
(* helper calls them, and the timestamp of a naive datetime.                *)
(* ======================================================================== *)

(* the members of DateFormats in the order of their declaration, each format
   string as its directives and literal characters *)
DateFormats == <<
    [name |-> "D_YYMMDD", format |-> <<"%y", "-", "%m", "-", "%d">>],
    [name |-> "D_DDMMyy", format |-> <<"%d", "-", "%m", "-", "%y">>],
    [name |-> "D_YYMMDD_N", format |-> <<"%y", "-", "%b", "-", "%d">>],
    [name |-> "D_DDMMyy_N", format |-> <<"%d", "-", "%b", "-", "%y">>],
    [name |-> "D_YYMMDDHHMMA_N", format |-> <<"%y", "-", "%b", "-", "%d", ",", " ", "%I", ":", "%M", "%p">>],
    [name |-> "D_DDMMyyHHMMA_N", format |-> <<"%d", "-", "%b", "-", "%y", ",", " ", "%I", ":", "%M", "%p">>],
    [name |-> "S_YYMMDD", format |-> <<"%y", "/", "%m", "/", "%d">>],
    [name |-> "S_DDMMyy", format |-> <<"%d", "/", "%m", "/", "%y">>],
    [name |-> "S_YYMMDDHHMMA", format |-> <<"%y", "/", "%m", "/", "%d", ",", " ", "%I", ":", "%M", "%p">>],
    [name |-> "S_DDMMyyHHMMA", format |-> <<"%d", "/", "%m", "/", "%y", ",", " ", "%I", ":", "%M", "%p">>],
    [name |-> "S_YYMMDDHHMMA_N", format |-> <<"%y", "/", "%b", "/", "%d", ",", " ", "%I", ":", "%M", "%p">>],
    [name |-> "S_DDMMyyHHMMA_N", format |-> <<"%d", "/", "%b", "/", "%y", ",", " ", "%I", ":", "%M", "%p">>],
    [name |-> "D_YYYYMMDD", format |-> <<"%Y", "-", "%m", "-", "%d">>],
    [name |-> "D_DDMMYYYY", format |-> <<"%d", "-", "%m", "-", "%Y">>],
    [name |-> "D_YYYYMMDDHHMMA", format |-> <<"%Y", "-", "%m", "-", "%d", ",", " ", "%I", ":", "%M", "%p">>],
    [name |-> "D_DDMMYYYYHHMMA", format |-> <<"%d", "-", "%m", "-", "%Y", ",", " ", "%I", ":", "%M", "%p">>],
    [name |-> "D_YYYYMMDD_N", format |-> <<"%Y", "-", "%b", "-", "%d">>],
    [name |-> "D_DDMMYYYY_N", format |-> <<"%d", "-", "%b", "-", "%Y">>],
    [name |-> "D_YYYYMMDDHHMMA_N", format |-> <<"%Y", "-", "%b", "-", "%d", ",", " ", "%I", ":", "%M", "%p">>],
    [name |-> "D_DDMMYYYYHHMMA_N", format |-> <<"%d", "-", "%b", "-", "%Y", ",", " ", "%I", ":", "%M", "%p">>],
    [name |-> "S_YYYYMMDD", format |-> <<"%Y", "/", "%m", "/", "%d">>],
    [name |-> "S_DDMMYYYY", format |-> <<"%d", "/", "%m", "/", "%Y">>],
    [name |-> "S_YYYYMMDDHHMMA", format |-> <<"%Y", "/", "%m", "/", "%d", ",", " ", "%I", ":", "%M", "%p">>],
    [name |-> "S_DDMMYYYYHHMMA", format |-> <<"%d", "/", "%m", "/", "%Y", ",", " ", "%I", ":", "%M", "%p">>],
    [name |-> "S_YYYYMMDDHHMMA_N", format |-> <<"%Y", "/", "%b", "/", "%d", ",", " ", "%I", ":", "%M", "%p">>],
    [name |-> "S_DDMMYYYYHHMMA_N", format |-> <<"%d", "/", "%b", "/", "%Y", ",", " ", "%I", ":", "%M", "%p">>],
    [name |-> "D_YYMMDDHHMMSSA_N", format |-> <<"%y", "-", "%b", "-", "%d", ",", " ", "%I", ":", "%M", ":", "%S", "%p">>],
    [name |-> "D_DDMMyyHHMMSSA_N", format |-> <<"%d", "-", "%b", "-", "%y", ",", " ", "%I", ":", "%M", ":", "%S", "%p">>],
    [name |-> "S_YYMMDDHHMMSSA", format |-> <<"%y", "/", "%m", "/", "%d", ",", " ", "%I", ":", "%M", ":", "%S", "%p">>],
    [name |-> "S_DDMMyyHHMMSSA", format |-> <<"%d", "/", "%m", "/", "%y", ",", " ", "%I", ":", "%M", ":", "%S", "%p">>],
    [name |-> "S_YYMMDDHHMMSSA_N", format |-> <<"%y", "/", "%b", "/", "%d", ",", " ", "%I", ":", "%M", ":", "%S", "%p">>],
    [name |-> "S_DDMMyyHHMMSSA_N", format |-> <<"%d", "/", "%b", "/", "%y", ",", " ", "%I", ":", "%M", ":", "%S", "%p">>],
    [name |-> "D_YYYYMMDDHHMMSSA", format |-> <<"%Y", "-", "%m", "-", "%d", ",", " ", "%I", ":", "%M", ":", "%S", "%p">>],
    [name |-> "D_DDMMYYYYHHMMSSA", format |-> <<"%d", "-", "%m", "-", "%Y", ",", " ", "%I", ":", "%M", ":", "%S", "%p">>],
    [name |-> "D_YYYYMMDDHHMMSSA_N", format |-> <<"%Y", "-", "%b", "-", "%d", ",", " ", "%I", ":", "%M", ":", "%S", "%p">>],
    [name |-> "D_DDMMYYYYHHMMSSA_N", format |-> <<"%d", "-", "%b", "-", "%Y", ",", " ", "%I", ":", "%M", ":", "%S", "%p">>],
    [name |-> "S_YYYYMMDDHHMMSSA", format |-> <<"%Y", "/", "%m", "/", "%d", ",", " ", "%I", ":", "%M", ":", "%S", "%p">>],
    [name |-> "S_DDMMYYYYHHMMSSA", format |-> <<"%d", "/", "%m", "/", "%Y", ",", " ", "%I", ":", "%M", ":", "%S", "%p">>],
    [name |-> "S_YYYYMMDDHHMMSSA_N", format |-> <<"%Y", "/", "%b", "/", "%d", ",", " ", "%I", ":", "%M", ":", "%S", "%p">>],
    [name |-> "S_DDMMYYYYHHMMSSA_N", format |-> <<"%d", "/", "%b", "/", "%Y", ",", " ", "%I", ":", "%M", ":", "%S", "%p">>],
    [name |-> "HHMMA", format |-> <<"%I", ":", "%M", "%p">>],
    [name |-> "HHMM", format |-> <<"%I", ":", "%M">>],
    [name |-> "HHMMSSA", format |-> <<"%I", ":", "%M", ":", "%S", "%p">>],
    [name |-> "HHMMSS", format |-> <<"%I", ":", "%M", ":", "%S">>]
>>
Members == 1 .. Len(DateFormats)
Member(name) == CHOOSE f \in Members : DateFormats[f].name = name
get_date_format(f) == DateFormats[f].format

(* ---- the regular expression datetime.strptime builds from a format ------ *)
Digits09 == {"0", "1", "2", "3", "4", "5", "6", "7", "8", "9"}
Digits19 == Digits09 \ {"0"}
Digits05 == {"0", "1", "2", "3", "4", "5"}
UpperLetters == <<"A", "B", "C", "D", "E", "F", "G", "H", "I", "J", "K", "L", "M",
                  "N", "O", "P", "Q", "R", "S", "T", "U", "V", "W", "X", "Y", "Z">>
LowerLetters == <<"a", "b", "c", "d", "e", "f", "g", "h", "i", "j", "k", "l", "m",
                  "n", "o", "p", "q", "r", "s", "t", "u", "v", "w", "x", "y", "z">>
(* both cases of a letter: the expression is compiled with IGNORECASE *)
AnyCase(ch) ==
    {ch} \cup {UpperLetters[i] : i \in {j \in 1 .. 26 : LowerLetters[j] = ch}}
         \cup {LowerLetters[i] : i \in {j \in 1 .. 26 : UpperLetters[j] = ch}}
Word(w) == [i \in 1 .. Len(w) |-> AnyCase(w[i])]
MonthAbbr == <<<<"J", "a", "n">>, <<"F", "e", "b">>, <<"M", "a", "r">>, <<"A", "p", "r">>,
               <<"M", "a", "y">>, <<"J", "u", "n">>, <<"J", "u", "l">>, <<"A", "u", "g">>,
               <<"S", "e", "p">>, <<"O", "c", "t">>, <<"N", "o", "v">>, <<"D", "e", "c">>>>
IsSpace(ch) == ch \in {" ", "\t", "\n"}

(* the alternatives of a directive in the order the expression lists them,
   each as the characters allowed at each position; a literal is itself *)
Alternatives(tok) ==
    CASE tok = "%d" -> << <<{"3"}, {"0", "1"}>>, <<{"1", "2"}, Digits09>>, <<{"0"}, Digits19>>,
                          <<Digits19>>, <<{" "}, Digits19>> >>
      [] tok \in {"%m", "%I"} -> << <<{"1"}, {"0", "1", "2"}>>, <<{"0"}, Digits19>>, <<Digits19>> >>
      [] tok = "%M" -> << <<Digits05, Digits09>>, <<Digits09>> >>
      [] tok = "%S" -> << <<{"6"}, {"0", "1"}>>, <<Digits05, Digits09>>, <<Digits09>> >>
      [] tok = "%y" -> << <<Digits09, Digits09>> >>
      [] tok = "%Y" -> << <<Digits09, Digits09, Digits09, Digits09>> >>
      [] tok = "%p" -> << Word(<<"a", "m">>), Word(<<"p", "m">>) >>
      [] tok = "%b" -> [i \in 1 .. 12 |-> Word(MonthAbbr[i])]
      [] OTHER -> << <<{tok}>> >>

AltMatches(alt, data, pos) ==
    /\ pos + Len(alt) - 1 <= Len(data)
    /\ \A k \in 1 .. Len(alt) : data[pos + k - 1] \in alt[k]

(* how many white-space characters stand at pos *)
SpaceRun(data, pos) ==
    LET others == {i \in pos .. Len(data) : ~IsSpace(data[i])}
    IN  IF others = {} THEN Len(data) - pos + 1 ELSE FirstOf(others) - pos

(* the lengths the token may take at pos, in the order the engine tries
   them: a space of the format is \s+ and is greedy *)
Lengths(tok, data, pos) ==
    IF tok = " "
    THEN [k \in 1 .. SpaceRun(data, pos) |-> SpaceRun(data, pos) - k + 1]
    ELSE LET Here(alt) == AltMatches(alt, data, pos)
             alts == SelectSeq(Alternatives(tok), Here)
         IN  [k \in 1 .. Len(alts) |-> Len(alts[k])]

NoMatch == [found |-> FALSE, stop |-> 0, groups |-> <<>>]

(* regex.match from token i of the format at position pos: the first way of
   matching the rest of the pattern that the engine finds, backtracking
   through the alternatives in order; groups holds the text of every token *)
RECURSIVE MatchFrom(_, _, _, _)
RECURSIVE TryEach(_, _, _, _, _)
MatchFrom(format, i, data, pos) ==
    IF i > Len(format) THEN [found |-> TRUE, stop |-> pos, groups |-> <<>>]
    ELSE TryEach(format, i, data, pos, Lengths(format[i], data, pos))
TryEach(format, i, data, pos, lens) ==
    IF lens = <<>> THEN NoMatch
    ELSE LET rest == MatchFrom(format, i + 1, data, pos + Head(lens))
         IN  IF rest.found
             THEN [found |-> TRUE, stop |-> rest.stop,
                   groups |-> <<SubSeq(data, pos, pos + Head(lens) - 1)>> \o rest.groups]
             ELSE TryEach(format, i, data, pos, Tail(lens))

(* ---- the calendar -------------------------------------------------------- *)
IsLeap(y) == y % 4 = 0 /\ (y % 100 # 0 \/ y % 400 = 0)
DaysInMonth(y, m) ==
    IF m = 2 THEN (IF IsLeap(y) THEN 29 ELSE 28)
    ELSE IF m \in {4, 6, 9, 11} THEN 30 ELSE 31


(* datetime(year, month, day, hour, minute, second) raises ValueError *)
InvalidDatetime(y, m, d, hh, mm, ss) ==
    \/ y < 1 \/ y > 9999
    \/ m < 1 \/ m > 12
    \/ d < 1 \/ d > DaysInMonth(y, m)
    \/ hh < 0 \/ hh > 23 \/ mm < 0 \/ mm > 59 \/ ss < 0 \/ ss > 59
Datetime(y, m, d, hh, mm, ss) ==
    [raised |-> "none", year |-> y, month |-> m, day |-> d,
     hour |-> hh, minute |-> mm, second |-> ss]
DateRaised(exc) ==
    [raised |-> exc, year |-> 0, month |-> 0, day |-> 0, hour |-> 0, minute |-> 0, second |-> 0]
NewDatetime(y, m, d, hh, mm, ss) ==
    IF InvalidDatetime(y, m, d, hh, mm, ss) THEN DateRaised("ValueError")
    ELSE Datetime(y, m, d, hh, mm, ss)

(* the days from 1970-01-01 to the day y-m-d of the proleptic Gregorian
   calendar, y >= 1 *)
DaysFromCivil(y, m, d) ==
    LET yy == IF m <= 2 THEN y - 1 ELSE y
        era == yy \div 400
        yoe == yy - era * 400
        mp == IF m > 2 THEN m - 3 ELSE m + 9
        doy == (153 * mp + 2) \div 5 + d - 1
        doe == yoe * 365 + yoe \div 4 - yoe \div 100 + doy
    IN  era * 146097 + doe - 719468

(* ---- datetime.strptime(data_string, format) ------------------------------ *)
GroupOf(format, groups, tok) ==
    LET at == {i \in 1 .. Len(format) : format[i] = tok}
    IN  IF at = {} THEN <<>> ELSE groups[FirstOf(at)]
(* int() of a group: white space around the digits is dropped *)
IntOfGroup(g) == NatOfDigits(LStrip(g, " "))
MonthOfAbbr(g) == CHOOSE i \in 1 .. 12 : AltMatches(Word(MonthAbbr[i]), g, 1)
(* two-digit years: 0..68 are 2000..2068, 69..99 are 1969..1999 *)
PivotYear(n) == IF n <= 68 THEN 2000 + n ELSE 1900 + n
(* %I with the %p that goes with it: no %p counts as AM *)
HourOf(h, ampm) ==
    IF ampm = <<>> \/ AltMatches(Word(<<"a", "m">>), ampm, 1)
    THEN (IF h = 12 THEN 0 ELSE h)
    ELSE (IF h = 12 THEN 12 ELSE h + 12)
FieldsOf(format, g) ==
    LET G(tok) == GroupOf(format, g, tok)
    IN  NewDatetime(
            IF G("%y") # <<>> THEN PivotYear(IntOfGroup(G("%y")))
            ELSE IF G("%Y") # <<>> THEN IntOfGroup(G("%Y")) ELSE 1900,
            IF G("%m") # <<>> THEN IntOfGroup(G("%m"))
            ELSE IF G("%b") # <<>> THEN MonthOfAbbr(G("%b")) ELSE 1,
            IF G("%d") # <<>> THEN IntOfGroup(G("%d")) ELSE 1,
            IF G("%I") # <<>> THEN HourOf(IntOfGroup(G("%I")), G("%p")) ELSE 0,
            IF G("%M") # <<>> THEN IntOfGroup(G("%M")) ELSE 0,
            IF G("%S") # <<>> THEN IntOfGroup(G("%S")) ELSE 0)
strptime(data_string, format) ==
    LET found == MatchFrom(format, 1, data_string, 1)
    IN  IF ~found.found \/ found.stop # Len(data_string) + 1
        THEN DateRaised("ValueError")
        ELSE FieldsOf(format, found.groups)

(* ---- datetime.strftime(format) ------------------------------------------- *)
TwoDigits(n) == <<DigitChar((n \div 10) % 10), DigitChar(n % 10)>>
RECURSIVE Decimal(_)
Decimal(n) == IF n < 10 THEN <<DigitChar(n)>> ELSE Decimal(n \div 10) \o <<DigitChar(n % 10)>>
Hour12(h) == IF h % 12 = 0 THEN 12 ELSE h % 12
Rendered(tok, dt) ==
    CASE tok = "%d" -> TwoDigits(dt.day)
      [] tok = "%m" -> TwoDigits(dt.month)
      [] tok = "%y" -> TwoDigits(dt.year % 100)
      [] tok = "%Y" -> Decimal(dt.year)
      [] tok = "%b" -> MonthAbbr[dt.month]
      [] tok = "%I" -> TwoDigits(Hour12(dt.hour))
      [] tok = "%M" -> TwoDigits(dt.minute)
      [] tok = "%S" -> TwoDigits(dt.second)
      [] tok = "%p" -> IF dt.hour < 12 THEN <<"A", "M">> ELSE <<"P", "M">>
      [] OTHER -> <<tok>>
RECURSIVE strftime(_, _)
strftime(dt, format) ==
    IF format = <<>> THEN <<>>
    ELSE Rendered(Head(format), dt) \o strftime(dt, Tail(format))

(* ---- Python ints that need more than 32 bits: days * MsPerDay + ms ------- *)
MsPerDay == 24 * 60 * 60 * 1000
SecondsPerDay == 24 * 60 * 60
IntValue(d, r) == [kind |-> "int", days |-> d, ms |-> r]
IntOf(n) == IntValue(n \div MsPerDay, n % MsPerDay)
NegOf(x) == IF x.ms = 0 THEN IntValue(0 - x.days, 0)
            ELSE IntValue(0 - x.days - 1, MsPerDay - x.ms)
NoneValue == [kind |-> "None", days |-> 0, ms |-> 0]

(* ---- datetime.timestamp() of a naive datetime ---------------------------- *)
(* The datetime is read as local time; timezone is the offset of local time
   from UTC in minutes, east positive, the same all year.                    *)
SecondOfDay(dt) == dt.hour * 3600 + dt.minute * 60 + dt.second
(* the conversion looks at the local time one day earlier and at the local
   reading of the datetime taken as UTC; either leaving the years 1..9999
   raises ValueError *)
TimestampRaises(dt, tz) ==
    \/ dt.year = 1 /\ dt.month = 1 /\ dt.day = 1
    \/ /\ dt.year = 9999 /\ dt.month = 12 /\ dt.day = 31
       /\ SecondOfDay(dt) + tz * 60 >= SecondsPerDay
(* int(dt.timestamp() * 1000) *)
TimestampMs(dt, tz) ==
    LET s == SecondOfDay(dt) - tz * 60
    IN  IntValue(DaysFromCivil(dt.year, dt.month, dt.day) + s \div SecondsPerDay,
                 (s % SecondsPerDay) * 1000)

(* ---- the helper's functions ---------------------------------------------- *)
(* lines 234-247 *)
parse_date(d, f, tz) ==
    LET dt == strptime(d, get_date_format(f))
    IN  IF dt.raised # "none" \/ TimestampRaises(dt, tz) THEN IntOf(0)
        ELSE TimestampMs(dt, tz)

(* lines 224-231: the loop over DateFormats from member f on *)
RECURSIVE TryFormats(_, _, _)
TryFormats(d, tz, f) ==
    IF f > Len(DateFormats) THEN NoneValue
    ELSE LET dt == strptime(d, get_date_format(f))
         IN  IF dt.raised # "none" \/ TimestampRaises(dt, tz) THEN TryFormats(d, tz, f + 1)
             ELSE TimestampMs(dt, tz)
(* the same loop walking the members from the last to the first *)
parse_any_date_LastFirst(d, tz) ==
    LET RECURSIVE Back(_)
        Back(f) ==
            IF f < 1 THEN NoneValue
            ELSE LET dt == strptime(d, get_date_format(f))
                 IN  IF dt.raised # "none" \/ TimestampRaises(dt, tz) THEN Back(f - 1)
                     ELSE TimestampMs(dt, tz)
    IN  Back(Len(DateFormats))
(* lines 217-231 *)
parse_any_date(d, tz) == TryFormats(d, tz, 1)

(* lines 90-98 *)
DayMonthYear == <<"%d", "/", "%m", "/", "%Y">>
get_date_only_str(d, tz) ==
    LET dt == strptime(d, DayMonthYear)
    IN  IF dt.raised # "none" \/ TimestampRaises(dt, tz) THEN NoneValue
        ELSE TimestampMs(dt, tz)

(* lines 160-176: timedelta.days is the floor of the difference in days *)
DeltaDays(date1, date2) ==
    (DaysFromCivil(date1.year, date1.month, date1.day)
        - DaysFromCivil(date2.year, date2.month, date2.day))
    + ((SecondOfDay(date1) - SecondOfDay(date2)) \div SecondsPerDay)
get_days_between_two_dates(old, new, f) ==
    LET date1 == strptime(old, get_date_format(f))
        date2 == strptime(new, get_date_format(f))
    IN  IF date1.raised # "none" \/ date2.raised # "none" THEN NoneValue
        ELSE IntOf(DeltaDays(date1, date2))

(* ---- the calls of the helper as a state machine -------------------------- *)
SampleDatetimes ==
    {Datetime(2001, 2, 3, 0, 0, 0), Datetime(2020, 1, 1, 0, 0, 0), Datetime(2020, 1, 1, 12, 0, 0),
     Datetime(1970, 1, 1, 0, 0, 0), Datetime(9999, 12, 31, 23, 59, 59)}
(* texts that no strftime of the helper writes *)
OddTexts ==
    {<<"0", "0", "0", "1", "-", "0", "1", "-", "0", "1">>,
     <<"0", "1", "/", "0", "1", "/", "0", "0", "0", "1">>,
     <<"0", "2", "/", "0", "1", "/", "0", "0", "0", "1">>,
     <<"0", "1", "/", "0", "1", "/", "1", "9", "7", "0">>,
     <<"1", "/", "1", "/", "1", "9", "7", "0">>,
     <<" ", "1", "-", "0", "1", "-", "7", "0">>,
     <<"1", "-", "1", "-", "7", "0">>,
     <<"3", "1", "-", "0", "2", "-", "2", "0">>,
     <<"2", "9", "-", "0", "2", "-", "2", "0">>,
     <<"x", "x">>,
     <<>>,
     <<"0", "1", "-", "0", "1", "-", "7", "0", " ">>,
     <<"0", "1", "-", "j", "a", "n", "-", "7", "0", ",", " ", " ", " ", "1", "2", ":", "0", "0", "a", "m">>,
     <<"0", "1", "-", "J", "a", "n", "-", "7", "0", ",", "1", "2", ":", "0", "0", "A", "M">>,
     <<"1", "2", ":", "6", "0">>,
     <<"0", "1", ":", "0", "5", ":", "6", "0", "P", "M">>,
     <<"0", "0", "0", "0", "-", "0", "1", "-", "0", "1">>,
     <<"1", "3", ":", "0", "5", "P", "M">>,
     <<"9", "9", "9", "9", "-", "1", "2", "-", "3", "1", ",", " ", "1", "0", ":", "0", "0", "A", "M">>,
     <<"6", "9", "-", "0", "1", "-", "0", "1">>,
     <<"6", "8", "-", "0", "1", "-", "0", "1">>}
DateTexts ==
    {strftime(dt, get_date_format(f)) : dt \in SampleDatetimes, f \in Members} \cup OddTexts
(* minutes east of UTC: New York in winter, UTC, Paris in winter *)
TimeZones == {0 - 300, 0, 60}

InitDates ==
    /\ pc = "date_helper"
    /\ date \in DateTexts /\ timezone \in TimeZones
    /\ date_format = 0 /\ new_date = <<>>
    /\ edit_text = <<>> /\ dialog = <<>> /\ time_dialog = <<>> /\ time_sets = 0
    /\ a = Unset /\ b = Unset /\ c = Unset
    /\ discriminant = Unset /\ value = Unset /\ previous = Unset
    /\ result = Unset /\ sqrt = Unset /\ q = Unset
    /\ calls = 0 /\ out = NoOutcome
    /\ saved = <<>> /\ running = 0 /\ text = <<>> /\ printed = <<>>

ReturnedFrom(function, v) == [kind |-> "returned", of |-> function, value |-> v]
dateLocals == <<date, timezone, edit_text, dialog, time_dialog, time_sets>>
notDates == <<a, b, c, discriminant, value, previous, result, sqrt, q, calls,
              saved, running, text, printed>>

ParseDate ==
    /\ pc = "date_helper"
    /\ \E f \in Members :
          /\ date_format' = f
          /\ out' = ReturnedFrom("parse_date", parse_date(date, f, timezone))
    /\ pc' = "done"
    /\ UNCHANGED <<new_date, dateLocals, notDates>>

ParseAnyDate ==
    /\ pc = "date_helper"
    /\ out' = ReturnedFrom("parse_any_date", parse_any_date(date, timezone))
    /\ pc' = "done"
    /\ UNCHANGED <<new_date, date_format, dateLocals, notDates>>

GetDateOnlyStr ==
    /\ pc = "date_helper"
    /\ out' = ReturnedFrom("get_date_only_str", get_date_only_str(date, timezone))
    /\ pc' = "done"
    /\ UNCHANGED <<new_date, date_format, dateLocals, notDates>>

(* the second date is one the same format wrote, or no date at all *)
NewDates(f) ==
    {strftime(dt, get_date_format(f)) :
        dt \in {Datetime(2001, 2, 3, 0, 0, 0), Datetime(2020, 1, 1, 0, 0, 0),
                Datetime(2020, 1, 1, 12, 0, 0)}}
    \cup {<<"x", "x">>}
GetDaysBetweenTwoDates ==
    /\ pc = "date_helper"
    /\ \E f \in Members : \E nd \in NewDates(f) :
          /\ date_format' = f /\ new_date' = nd
          /\ out' = ReturnedFrom("get_days_between_two_dates",
                                 get_days_between_two_dates(date, nd, f))
    /\ pc' = "done"
    /\ UNCHANGED <<dateLocals, notDates>>

NextDates == ParseDate \/ ParseAnyDate \/ GetDateOnlyStr \/ GetDaysBetweenTwoDates
SpecDates == InitDates /\ [][NextDates]_vars

(* ---- claims about the date helper ---------------------------------------- *)
Parses(d, f) == strptime(d, get_date_format(f)).raised = "none"
ReturnedBy(function) == pc = "done" /\ out.kind = "returned" /\ out.of = function

(* C21: parse_date(date, fmt) never returns None and never raises for a      *)
(* string that does not parse under fmt: it returns 0 then, and the          *)
(* millisecond timestamp of the parsed date otherwise; parse_any_date and    *)
(* get_date_only_str return None when the string does not parse.             *)
C21_ZeroOnFailureTimestampOtherwise ==
    /\ ReturnedBy("parse_date") =>
          /\ out.value # NoneValue
          /\ ~Parses(date, date_format) => out.value = IntOf(0)
          /\ Parses(date, date_format) =>
                out.value = TimestampMs(strptime(date, get_date_format(date_format)), timezone)
    /\ (ReturnedBy("parse_any_date") /\ \A f \in Members : ~Parses(date, f)) =>
          out.value = NoneValue
    /\ (ReturnedBy("get_date_only_str") /\ strptime(date, DayMonthYear).raised # "none") =>
          out.value = NoneValue
(* the first day of year 1 parses under %Y-%m-%d and parse_date answers 0 *)
C21_Witness ==
    /\ ReturnedBy("parse_date")
    /\ date = <<"0", "0", "0", "1", "-", "0", "1", "-", "0", "1">>
    /\ date_format = Member("D_YYYYMMDD") /\ timezone = 0
    /\ Parses(date, date_format)
    /\ strptime(date, get_date_format(date_format)) = Datetime(1, 1, 1, 0, 0, 0)
    /\ out.value = IntOf(0)
(* what does hold: parse_date never answers None, answers 0 when strptime
   or the conversion to a timestamp raises ValueError, the timestamp
   otherwise; the other two answer None in the former case *)
ParseDateAsCoded ==
    LET dt == strptime(date, get_date_format(date_format))
        failed == dt.raised # "none" \/ TimestampRaises(dt, timezone)
    IN  ReturnedBy("parse_date") =>
           /\ out.value.kind = "int"
           /\ failed => out.value = IntOf(0)
           /\ ~failed => out.value = TimestampMs(dt, timezone)

(* C22: for every member fmt of DateFormats and every two strings A and B    *)
(* that parse under fmt, get_days_between_two_dates(A, B, fmt) is the        *)
(* negative of get_days_between_two_dates(B, A, fmt); when either string     *)
(* does not parse the result is None.                                        *)
C22_DaysBetweenAntisymmetric ==
    ReturnedBy("get_days_between_two_dates") =>
        IF Parses(date, date_format) /\ Parses(new_date, date_format)
        THEN out.value = NegOf(get_days_between_two_dates(new_date, date, date_format))
        ELSE out.value = NoneValue
(* midnight and noon of one day: -1 one way round, 0 the other *)
C22_Witness ==
    /\ ReturnedBy("get_days_between_two_dates")
    /\ date_format = Member("S_DDMMYYYYHHMMA")
    /\ date = strftime(Datetime(2020, 1, 1, 0, 0, 0), get_date_format(date_format))
    /\ new_date = strftime(Datetime(2020, 1, 1, 12, 0, 0), get_date_format(date_format))
    /\ out.value = IntOf(0 - 1)
    /\ get_days_between_two_dates(new_date, date, date_format) = IntOf(0)
(* the two directions differ in sign only when the times of day are equal,
   as they always are under a format without a time *)
HasTime(f) == \E i \in 1 .. Len(get_date_format(f)) : get_date_format(f)[i] = "%I"
DaysAntisymmetricWithoutTime ==
    ReturnedBy("get_days_between_two_dates") =>
        IF Parses(date, date_format) /\ Parses(new_date, date_format)
        THEN \/ HasTime(date_format)
             \/ out.value = NegOf(get_days_between_two_dates(new_date, date, date_format))
        ELSE out.value = NoneValue

Converts(d, f, tz) ==
    /\ Parses(d, f)
    /\ ~TimestampRaises(strptime(d, get_date_format(f)), tz)
Clock ==
    {Datetime(2024, 2, 29, 16, 38, 0), Datetime(2023, 7, 15, 4, 30, 45),
     Datetime(2023, 12, 31, 0, 0, 0), Datetime(2023, 1, 1, 12, 5, 0),
     Datetime(2023, 6, 1, 23, 59, 59)}
(* year, month and day a caller may hand to the date listener itself *)
PickedDates == {<<2023, 1, 31>>, <<2023, 2, 28>>, <<2023, 4, 30>>, <<2023, 2, 30>>, <<5, 1, 2>>}
NoDialog == [kind |-> "none"]
HourMinuteAmPm == <<"%I", ":", "%M", " ", "%p">>
(* lines 281-283: what set_text prints *)
SettingText(t) == <<"Setting text: ">> \o t

InitPicker ==
    /\ pc = "idle"
    /\ edit_text = NoneValue /\ dialog = NoDialog /\ time_dialog = NoDialog /\ time_sets = 0
    /\ date = <<>> /\ new_date = <<>> /\ date_format = 0 /\ timezone = 0
    /\ a = Unset /\ b = Unset /\ c = Unset
    /\ discriminant = Unset /\ value = Unset /\ previous = Unset
    /\ result = Unset /\ sqrt = Unset /\ q = Unset
    /\ calls = 0 /\ out = NoOutcome
    /\ saved = <<>> /\ running = 0 /\ text = <<>> /\ printed = <<>>

pickerRest == <<date, date_format, timezone, notDates>>

(* lines 309-340: date_picker_dialog returns the dialog *)
DatePickerDialogBuilt ==
    /\ pc = "idle"
    /\ \E with_time \in BOOLEAN, date_formats \in Members, now \in Clock :
          dialog' = [kind |-> "DatePickerDialog", with_time |-> with_time,
                     date_formats |-> date_formats,
                     year |-> now.year, month |-> now.month, day |-> now.day]
    /\ pc' = "date_dialog"
    /\ UNCHANGED <<edit_text, new_date, time_dialog, time_sets, out, pickerRest>>

(* lines 324-328: the date listener, called by show() with the date of the
   dialog or by a caller with a date of its own, up to set_text *)
OnDateSet ==
    /\ pc = "date_dialog"
    /\ \E ymd \in PickedDates \cup {<<dialog.year, dialog.month, dialog.day>>} :
          LET picked == NewDatetime(ymd[1], ymd[2], ymd[3], 0, 0, 0)
              formatted_date == strftime(picked, get_date_format(dialog.date_formats))
          IN  IF picked.raised # "none"
              THEN /\ out' = Raised(picked.raised)
                   /\ pc' = "done"
                   /\ UNCHANGED <<edit_text, new_date, printed>>
              ELSE /\ new_date' = picked
                   /\ edit_text' = formatted_date
                   /\ printed' = Append(printed, SettingText(formatted_date))
                   /\ pc' = "with_time"
                   /\ UNCHANGED out
    /\ UNCHANGED <<dialog, time_dialog, time_sets, date, date_format, timezone>>
    /\ UNCHANGED <<a, b, c, discriminant, value, previous, result, sqrt, q, calls,
                   saved, running, text>>

(* line 329, with_time is false: the listener returns *)
DateSetReturns ==
    /\ pc = "with_time" /\ ~dialog.with_time
    /\ pc' = "done"
    /\ UNCHANGED <<edit_text, dialog, new_date, time_dialog, time_sets, out, pickerRest>>

(* the same call building a time picker that replaces the text *)
ShowTimePicker_Replacing ==
    /\ pc = "with_time" /\ dialog.with_time
    /\ \E now \in Clock :
          time_dialog' = [kind |-> "TimePickerDialog", with_append |-> FALSE,
                          hour |-> now.hour, minute |-> now.minute]
    /\ pc' = "time_dialog"
    /\ UNCHANGED <<edit_text, dialog, new_date, time_sets, out, pickerRest>>

(* lines 329-331 and 363-395: time_picker_dialog(context, date_edit_text,
   True) builds the time picker with the hour and minute of now *)
ShowTimePicker ==
    /\ pc = "with_time" /\ dialog.with_time
    /\ \E now \in Clock :
          time_dialog' = [kind |-> "TimePickerDialog", with_append |-> TRUE,
                          hour |-> now.hour, minute |-> now.minute]
    /\ pc' = "time_dialog"
    /\ UNCHANGED <<edit_text, dialog, new_date, time_sets, out, pickerRest>>

(* lines 363-395: a caller builds a time picker of its own *)
TimePickerDialogBuilt ==
    /\ pc = "idle"
    /\ \E with_append \in BOOLEAN, now \in Clock :
          time_dialog' = [kind |-> "TimePickerDialog", with_append |-> with_append,
                          hour |-> now.hour, minute |-> now.minute]
    /\ pc' = "time_dialog"
    /\ UNCHANGED <<edit_text, dialog, new_date, time_sets, out, pickerRest>>

(* lines 358-360 and 376-386: show() calls the time listener with the hour
   and minute of the dialog *)
OnTimeSet ==
    /\ pc = "time_dialog"
    /\ \E now \in Clock :
          LET new_time == [now EXCEPT !.hour = time_dialog.hour, !.minute = time_dialog.minute]
              formatted_time == strftime(new_time, HourMinuteAmPm)
              shown == IF time_dialog.with_append
                       THEN (IF edit_text = NoneValue THEN <<"None">> ELSE edit_text)
                                \o <<",", " ">> \o formatted_time
                       ELSE formatted_time
          IN  /\ edit_text' = shown
              /\ printed' = Append(printed, SettingText(shown))
    /\ time_sets' = time_sets + 1
    /\ pc' = "done"
    /\ UNCHANGED <<dialog, time_dialog, new_date, out, date, date_format, timezone>>
    /\ UNCHANGED <<a, b, c, discriminant, value, previous, result, sqrt, q, calls,
                   saved, running, text>>

NextPicker ==
    \/ DatePickerDialogBuilt \/ OnDateSet \/ DateSetReturns
    \/ ShowTimePicker \/ TimePickerDialogBuilt \/ OnTimeSet
SpecPicker == InitPicker /\ [][NextPicker]_vars

(* the date listener has set the text and has not raised *)
DateWasSet == dialog.kind = "DatePickerDialog" /\ pc \in {"with_time", "time_dialog", "done"}
                 /\ out.kind = "none"
FormattedDate == strftime(new_date, get_date_format(dialog.date_formats))
(* hh:mm AM/PM of the time the time picker was built with *)
TwelveHourTime(hour, minute) ==
    TwoDigits(Hour12(hour)) \o <<":">> \o TwoDigits(minute) \o <<" ">>
        \o (IF hour < 12 THEN <<"A", "M">> ELSE <<"P", "M">>)

(* C24: the date listener of date_picker_dialog first sets the EditText to   *)
(* the chosen date in the given format; with with_time the time listener     *)
(* then runs exactly once and appends ", " and the current time as           *)
(* hh:mm AM/PM, so the final text is "<date>, <time>"; without with_time the *)
(* time picker never runs and the final text is the formatted date.          *)
C24_DateThenTimeOnce ==
    DateWasSet =>
        /\ printed[1] = SettingText(FormattedDate)
        /\ pc \in {"with_time", "time_dialog"} =>
              /\ edit_text = FormattedDate /\ time_sets = 0 /\ Len(printed) = 1
        /\ (pc = "done" /\ dialog.with_time) =>
              /\ time_sets = 1
              /\ edit_text = FormattedDate \o <<",", " ">>
                                 \o TwelveHourTime(time_dialog.hour, time_dialog.minute)
              /\ printed = <<SettingText(FormattedDate), SettingText(edit_text)>>
        /\ (pc = "done" /\ ~dialog.with_time) =>
              /\ time_sets = 0 /\ time_dialog = NoDialog
              /\ edit_text = FormattedDate
              /\ printed = <<SettingText(FormattedDate)>>
C24_Witness ==
    /\ pc = "done" /\ DateWasSet /\ dialog.with_time /\ time_sets = 1
    /\ dialog.date_formats = Member("D_DDMMYYYY")
    /\ new_date = Datetime(2023, 4, 30, 0, 0, 0)
    /\ time_dialog.hour = 4 /\ time_dialog.minute = 30
    /\ edit_text = <<"3", "0", "-", "0", "4", "-", "2", "0", "2", "3", ",", " ",
                     "0", "4", ":", "3", "0", " ", "A", "M">>
C24_WitnessDateOnly ==
    /\ pc = "done" /\ DateWasSet /\ ~dialog.with_time /\ time_sets = 0
    /\ dialog.date_formats = Member("D_DDMMYYYY")
    /\ new_date = Datetime(2023, 2, 28, 0, 0, 0)
    /\ edit_text = <<"2", "8", "-", "0", "2", "-", "2", "0", "2", "3">>

====
